---- MODULE Spec2Model ----
(***************************************************************************)
(* A model of the mining dashboard server (src/server.js): the three       *)
(* market-data caches and their fetchers, server start-up, the CGMiner     *)
(* protocol client and the per-device statistics aggregation.              *)
(*                                                                         *)
(* JavaScript runs every callback to completion, so each action below is   *)
(* one synchronous segment of a handler: from its entry, or from the       *)
(* resumption of an await, to the next await or to its return.             *)
(***************************************************************************)
EXTENDS Integers, Sequences, FiniteSets, TLC

VARIABLES
    phase,                  \* position of start(): "boot", "fetching", "running"
    electricityPriceCache,  \* server.js:43
    btcPriceCache,          \* server.js:54
    networkStatsCache,      \* server.js:60
    inflight,               \* fetcher invocations awaiting httpsGet
    initialDone,            \* fetchers whose start-up invocation has returned
    obs                     \* the last thing the server returned, sent or logged

marketVars == <<phase, electricityPriceCache, btcPriceCache, networkStatsCache,
                inflight, initialDone, obs>>

\* One call of sendCGMinerCommand (server.js:684-719).
VARIABLES
    sock,       \* the socket: "none", "connecting", "open", "ended", "closed",
                \* "failed" (closed by an error), "destroyed"
    connects,   \* TCP connections the call has opened
    written,    \* whether the command has been written
    pending,    \* bytes received and not yet handed to the 'data' listener
    wire,       \* every byte the device has sent, in order
    overflow,   \* the device has sent more than the model keeps
    data,       \* `data`, the decoded text collected so far
    idle,       \* ticks since the socket's last activity
    outcome,    \* the promise: "none", "pending", "resolved" or the error rejected with
    result,     \* the value the promise resolved with
    first       \* the first event that tried to settle the promise

sendVars == <<sock, connects, written, pending, wire, overflow, data, idle,
              outcome, result, first>>

\* One call of getMinerStats (server.js:915-1347).
VARIABLES
    pc,           \* the await the call is at: "idle", "graphql", "httpapi", "devs",
                  \* "core", "done"
    req,          \* per request of the call: "unsent", "pending", "fulfilled", "rejected"
    reply,        \* per request, what it was fulfilled with
    statsResult   \* how the call ended: "none", "snapshot", "failed"

statsVars == <<pc, req, reply, statsResult>>

\* One call of fetchBraiinsGraphQL (server.js:108-396).
VARIABLES
    gqlPhase,    \* "idle", "introspect", "query", "returned", "threw"
    gqlIndex,    \* which introspection or candidate query is awaited
    gqlSent,     \* the candidate queries sent so far, each with what it resolved to
    gqlLast,     \* the last graphqlRequest: what the device did, what it resolved to
    gqlResult    \* what fetchBraiinsGraphQL returned

gqlVars == <<gqlPhase, gqlIndex, gqlSent, gqlLast, gqlResult>>

\* One evaluation of a synchronous part of the program on given inputs.
VARIABLES
    args,   \* the part evaluated and its inputs
    ret     \* what it computed

evalVars == <<args, ret>>

\* One WebSocket connection (server.js:1676-1735).
VARIABLES
    readyState,       \* ws.readyState: "NONE" before the connection, "OPEN", "CLOSED"
    interval,         \* the poll timer: "unset", "set", "cleared"
    listening,        \* the 'close' and 'error' listeners are registered
    poll,             \* per sendStats call, the await it is at or how it ended
    sent,             \* the messages handed to ws.send, in order
    now,              \* Date.now(), in ticks of the poll timer
    lastHistorySave,  \* server.js:1676
    lastSettle,       \* the getMinerStats call that settled last, and how
    unhandled         \* a rejection nobody handles has occurred

wsVars == <<readyState, interval, listening, poll, sent, now, lastHistorySave,
            lastSettle, unhandled>>

\* One call of setPowerProfile (server.js:1349-1375).
VARIABLES
    powerProfile,   \* the profile the call was given
    powerPc,        \* "idle", "awaiting" (the device command), "returned", "threw"
    powerResult     \* what the call returned

powerVars == <<powerProfile, powerPc, powerResult>>

\* The calls of saveHistoryEntry (server.js:1417-1442) and history.json.
VARIABLES
    historyFile,   \* the entries of HISTORY_FILE, [] when the file is absent
    savePc,        \* per call: "idle", "loadHistory", "writeFile" (the await it
                   \* is at), "returned", "threw"
    saveHistory,   \* per call, its `history.entries`
    appended       \* the entries whose writeFile succeeded, in that order

historyVars == <<historyFile, savePc, saveHistory, appended>>

\* The service worker's API cache and one API request passing through its
\* 'fetch' handler (src/unnamed/part_000:80-192).
VARIABLES
    apiCache,     \* API_CACHE: per request path, the response stored or none
    swPc,         \* "idle", or the await networkFirstWithCache is at: "fetch",
                  \* "open", "match", or how it ended: "responded", "threw"
    swRequest,    \* the path of the request
    swFetched,    \* what fetch(request) settled with
    swResponse,   \* what the page was answered
    swHandled     \* requests handled so far

swVars == <<apiCache, swPc, swRequest, swFetched, swResponse, swHandled>>

\* config.json and the requests that read or write it: POST /api/config,
\* POST /api/miner/power and GET /api/electricity/prices (server.js:1485-1539,
\* 1582-1597), with the periodic price refresh (1653-1656).
VARIABLES
    configFile,    \* what loadConfig() returns: CONFIG_FILE parsed, or the defaults
    request,       \* per request: its route and its body or query
    routePc,       \* per request: "idle", the await its handler is at
                   \* ("loadConfig", "setPowerProfile", "saveConfig",
                   \* "fetchElectricityPrices"), or "responded"
    routeConfig,   \* per request, the handler's `config`
    routeZone,     \* per request, the zone its fetchElectricityPrices was given
    routeStatus,   \* per request, the status of its response
    commands,      \* the commands handed to sendCGMinerCommand, in order
    refresh        \* the zone of the periodic refresh in flight, or "none"

configVars == <<configFile, request, routePc, routeConfig, routeZone,
                routeStatus, commands, refresh>>

vars == <<marketVars, sendVars, statsVars, gqlVars, evalVars, wsVars, powerVars,
          historyVars, swVars, configVars>>

notMarket == <<sendVars, statsVars, gqlVars, evalVars, wsVars, powerVars,
    historyVars, swVars, configVars>>
notSend == <<marketVars, statsVars, gqlVars, evalVars, wsVars, powerVars,
    historyVars, swVars, configVars>>
notStats == <<marketVars, sendVars, gqlVars, evalVars, wsVars, powerVars,
    historyVars, swVars, configVars>>
notGql == <<marketVars, sendVars, statsVars, evalVars, wsVars, powerVars,
    historyVars, swVars, configVars>>
notEval == <<marketVars, sendVars, statsVars, gqlVars, wsVars, powerVars,
    historyVars, swVars, configVars>>
notWs == <<marketVars, sendVars, statsVars, gqlVars, evalVars, powerVars,
    historyVars, swVars, configVars>>
notPower == <<marketVars, sendVars, statsVars, gqlVars, evalVars, wsVars,
    historyVars, swVars, configVars>>
notHistory == <<marketVars, sendVars, statsVars, gqlVars, evalVars, wsVars,
    powerVars, swVars, configVars>>
notSw == <<marketVars, sendVars, statsVars, gqlVars, evalVars, wsVars,
    powerVars, historyVars, configVars>>
notConfig == <<marketVars, sendVars, statsVars, gqlVars, evalVars, wsVars,
    powerVars, historyVars, swVars>>
notMarketNorConfig == <<sendVars, statsVars, gqlVars, evalVars, wsVars,
    powerVars, historyVars, swVars>>

-----------------------------------------------------------------------------
(* Bounds of the model.                                                    *)

\* Invocations of one fetcher (and aggregations) that may be pending at once.
MaxInflight == 1

\* A value carries the label of the HTTP response it was taken from, so that
\* two responses can be told apart in whatever reads the caches later.
Versions == {"v1", "v2"}

-----------------------------------------------------------------------------
(* JavaScript values that are not data.                                    *)

Null == "null"
Undef == "undefined"
NaN == "NaN"
Empty == "[]"

-----------------------------------------------------------------------------
(* ELECTRICITY_ZONES (server.js:23-37): one country; of its five zones the *)
(* model keeps NO5 (the default) and NO4 (the zone with its own VAT rate). *)

KnownCountries == {"norway"}
KnownZones == {"NO4", "NO5"}

\* What a caller may pass: a configured or requested country and zone.
CountryArgs == {"norway", "sweden"}
ZoneArgs == {"NO4", "NO5", "XX"}

ZoneName(zone) == IF zone = "NO4" THEN "Tromso / Nord-Norge" ELSE "Bergen / Vest-Norge"
VatRate(zone) == IF zone = "NO4" THEN "0" ELSE "0.25"

-----------------------------------------------------------------------------
(* The caches as declared.                                                 *)

InitElectricityPriceCache ==
    [prices |-> Empty, currentPrice |-> Null, avgPrice |-> Null,
     minPrice |-> Null, maxPrice |-> Null, fetchedAt |-> Null,
     zone |-> "NO5", country |-> "norway",
     zoneName |-> Undef, currency |-> Undef, vatRate |-> Undef]

InitBtcPriceCache ==
    [priceUSD |-> Null, priceNOK |-> Null, priceEUR |-> Undef,
     priceSEK |-> Undef, fetchedAt |-> Null]

InitNetworkStatsCache ==
    [difficulty |-> Null, hashrate |-> Null, hashrateFormatted |-> Undef,
     blockHeight |-> Null, blockReward |-> "3.125", blocksPerDay |-> Undef,
     marketPriceUSD |-> Undef, fetchedAt |-> Null]

-----------------------------------------------------------------------------
(* httpsGet (server.js:81-102): the promise rejects on a request error or  *)
(* on the 10 s timeout, and otherwise resolves with the parsed body, or    *)
(* with the body as a string when it is not JSON.                          *)

HttpRejections == {"error", "timeout"}

\* `plain` are the bodies that hold nothing the fetcher keeps, `valued` those
\* whose values the cache will carry.
HttpsGet(plain, valued) ==
    {[settle |-> "reject", body |-> r, ver |-> "-"] : r \in HttpRejections}
    \cup {[settle |-> "resolve", body |-> b, ver |-> "-"] : b \in plain}
    \cup {[settle |-> "resolve", body |-> b, ver |-> v] : b \in valued, v \in Versions}

\* Bodies the price API may answer with: not JSON, JSON null, a JSON object,
\* [], an array holding a null, an array of hourly prices, and an array of
\* objects without NOK_per_kWh.
ElectricityBodies == {"text", "jsonNull", "jsonObject", "emptyArray", "arrayWithNull"}
ElectricityData == {"prices", "pricesNoNOK"}

\* Bodies of the exchange-rate API: not JSON, JSON null, an object without
\* "bitcoin", and "bitcoin" with all four currencies, with usd only, with none.
BtcBodies == {"text", "jsonNull", "noBitcoin"}
BtcData == {"full", "usdOnly", "noCurrency"}

\* Bodies of the network API: not JSON, JSON null, an object without
\* "difficulty", the full statistics, and statistics without n_blocks_total.
NetworkBodies == {"text", "jsonNull", "noDifficulty"}
NetworkData == {"full", "noBlocksTotal"}

-----------------------------------------------------------------------------
(* Assignment of a freshly built object to a cache variable.               *)

CacheMutateInPlace(old, new) ==
    [f \in DOMAIN old |-> IF new[f] # Undef THEN new[f] ELSE old[f]]

CacheSwap(old, new) == new

-----------------------------------------------------------------------------
(* The try blocks of the three fetchers.  Each yields the cache as the     *)
(* block leaves it, the exception that ended it ("none": it ran to its     *)
(* return) and whether it assigned the cache.                              *)

\* fetchElectricityPrices up to its await: the country and zone lookups.
ElectricityLookup(country, zone) ==
    IF country \notin KnownCountries THEN "Error"
    ELSE IF zone \notin KnownZones THEN "Error"
    ELSE "none"

\* fetchElectricityPrices from the resumption of `await httpsGet(url)`.
FetchElectricityPricesTry(cache, country, zone, res) ==
    IF res.settle = "reject"
    THEN [cache |-> cache, exc |-> "Error", assigned |-> FALSE]
    ELSE IF res.body \in {"text", "jsonNull", "jsonObject", "emptyArray"}
    THEN \* !Array.isArray(prices) || prices.length === 0
         [cache |-> cache, exc |-> "Error", assigned |-> FALSE]
    ELSE IF res.body = "arrayWithNull"
    THEN \* p.time_start of a null element, inside prices.find
         [cache |-> cache, exc |-> "TypeError", assigned |-> FALSE]
    ELSE LET price == IF res.body = "prices" THEN res.ver ELSE NaN
             built == [prices |-> res.ver, currentPrice |-> price,
                       avgPrice |-> price, minPrice |-> price,
                       maxPrice |-> price, fetchedAt |-> res.ver,
                       zone |-> zone, country |-> country,
                       zoneName |-> ZoneName(zone), currency |-> "NOK",
                       vatRate |-> VatRate(zone)]
         IN  \* currentPrice is a number (possibly NaN): toFixed(2) does not throw
             [cache |-> CacheSwap(cache, built), exc |-> "none", assigned |-> TRUE]

\* fetchBTCPrice from the resumption of `await httpsGet(url)`.
FetchBTCPriceTry(cache, res) ==
    IF res.settle = "reject"
    THEN [cache |-> cache, exc |-> "Error", assigned |-> FALSE]
    ELSE IF res.body = "jsonNull"
    THEN \* data.bitcoin of null
         [cache |-> cache, exc |-> "TypeError", assigned |-> FALSE]
    ELSE IF res.body \in {"text", "noBitcoin"}
    THEN \* data.bitcoin is undefined: the if is skipped
         [cache |-> cache, exc |-> "none", assigned |-> FALSE]
    ELSE LET usd == IF res.body \in {"full", "usdOnly"} THEN res.ver ELSE Undef
             other == IF res.body = "full" THEN res.ver ELSE Undef
             built == [priceUSD |-> usd, priceNOK |-> other, priceEUR |-> other,
                       priceSEK |-> other, fetchedAt |-> res.ver]
         IN  \* the log line after the assignment calls toLocaleString on
             \* priceUSD and on priceNOK
             [cache |-> CacheSwap(cache, built),
              exc |-> IF usd = Undef \/ other = Undef THEN "TypeError" ELSE "none",
              assigned |-> TRUE]

\* fetchNetworkStats from the resumption of `await httpsGet(statsUrl)`.
FetchNetworkStatsTry(cache, res) ==
    IF res.settle = "reject"
    THEN [cache |-> cache, exc |-> "Error", assigned |-> FALSE]
    ELSE IF res.body \in {"text", "jsonNull", "noDifficulty"}
    THEN \* stats && stats.difficulty is falsy: the if is skipped
         [cache |-> cache, exc |-> "none", assigned |-> FALSE]
    ELSE LET built == [difficulty |-> res.ver, hashrate |-> res.ver,
                       hashrateFormatted |-> res.ver,
                       blockHeight |-> IF res.body = "full" THEN res.ver ELSE Undef,
                       blockReward |-> "3.125", blocksPerDay |-> "144",
                       marketPriceUSD |-> res.ver, fetchedAt |-> res.ver]
         IN  [cache |-> CacheSwap(cache, built), exc |-> "none", assigned |-> TRUE]

\* The catch clause shared by the three fetchers: it logs err.message and
\* returns the cache variable.  `path` is the way the invocation took:
\* "updated" (assigned, logged the update), "unchanged" (returned without
\* assigning or logging) or "failed" (the catch clause logged the failure).
TryCatchLeaks(r) ==
    [cache |-> r.cache,
     path |-> IF r.exc # "none" THEN "failed"
              ELSE IF r.assigned THEN "updated" ELSE "unchanged",
     raised |-> r.exc = "TypeError",
     ret |-> r.cache]

TryCatch(r) ==
    [cache |-> r.cache,
     path |-> IF r.exc # "none" THEN "failed"
              ELSE IF r.assigned THEN "updated" ELSE "unchanged",
     raised |-> FALSE,
     ret |-> r.cache]

-----------------------------------------------------------------------------
(* What the server lets out: the return of a fetcher invocation, and the   *)
(* cache fields a reader copies into a response or a WebSocket message.    *)

Fetchers == {"fetchElectricityPrices", "fetchBTCPrice", "fetchNetworkStats"}

\* The response a value was taken from; "initial" for the declared nulls and
\* "-" for what carries none (constants, undefined, NaN).
Origin(x) ==
    IF x \in Versions THEN x
    ELSE IF x \in {Null, Empty} THEN "initial"
    ELSE "-"

Provenance(view) == {Origin(view[f]) : f \in DOMAIN view} \ {"-"}

NoProvenance == [electricity |-> {}, btcPrice |-> {}, network |-> {}]

NoObs ==
    [type |-> "none", who |-> "-", path |-> "-", raised |-> FALSE,
     retCurrent |-> FALSE, src |-> NoProvenance]

ReturnOf(fetcher, r) ==
    [type |-> "return", who |-> fetcher, path |-> r.path, raised |-> r.raised,
     retCurrent |-> (r.ret = r.cache), src |-> NoProvenance]

\* getMinerStats, server.js:1243 and 1276-1311 (with calculateEfficiency's
\* reads of networkStatsCache, 629-631 and 669): one synchronous block.
GetMinerStatsView ==
    [electricity |->
        [spotPrice |-> electricityPriceCache.currentPrice,
         avgPrice |-> electricityPriceCache.avgPrice,
         minPrice |-> electricityPriceCache.minPrice,
         maxPrice |-> electricityPriceCache.maxPrice,
         zone |-> electricityPriceCache.zone,
         zoneName |-> electricityPriceCache.zoneName,
         country |-> electricityPriceCache.country,
         currency |-> electricityPriceCache.currency,
         vatRate |-> electricityPriceCache.vatRate,
         prices |-> electricityPriceCache.prices,
         updatedAt |-> electricityPriceCache.fetchedAt],
     btcPrice |->
        [usd |-> btcPriceCache.priceUSD, nok |-> btcPriceCache.priceNOK,
         eur |-> btcPriceCache.priceEUR, sek |-> btcPriceCache.priceSEK,
         updatedAt |-> btcPriceCache.fetchedAt],
     network |->
        [difficulty |-> networkStatsCache.difficulty,
         hashrate |-> networkStatsCache.hashrate,
         hashrateFormatted |-> networkStatsCache.hashrateFormatted,
         blockHeight |-> networkStatsCache.blockHeight,
         blockReward |-> networkStatsCache.blockReward,
         blocksPerDay |-> networkStatsCache.blocksPerDay,
         updatedAt |-> networkStatsCache.fetchedAt]]

\* sendStats' error messages, server.js:1689-1694 and 1707-1712.
WsErrorView ==
    [electricity |-> electricityPriceCache, btcPrice |-> btcPriceCache,
     network |-> networkStatsCache]

SnapshotOf(reader, view) ==
    [type |-> "snapshot", who |-> reader, path |-> "-", raised |-> FALSE,
     retCurrent |-> FALSE,
     src |-> [electricity |-> Provenance(view.electricity),
              btcPrice |-> Provenance(view.btcPrice),
              network |-> Provenance(view.network)]]

\* res.json(<cache>) of the three cache routes, server.js:1593, 1605, 1617.
RouteResponseOf(fetcher) ==
    [type |-> "snapshot", who |-> "route", path |-> "-", raised |-> FALSE,
     retCurrent |-> FALSE,
     src |-> [electricity |-> IF fetcher = "fetchElectricityPrices"
                              THEN Provenance(electricityPriceCache) ELSE {},
              btcPrice |-> IF fetcher = "fetchBTCPrice"
                           THEN Provenance(btcPriceCache) ELSE {},
              network |-> IF fetcher = "fetchNetworkStats"
                          THEN Provenance(networkStatsCache) ELSE {}]]

-----------------------------------------------------------------------------
(* Pending invocations: per zone for fetchElectricityPrices (the country of *)
(* a pending invocation is always a known one), a count for the others.    *)

NoneInflight == [el |-> [z \in KnownZones |-> 0], btc |-> 0, net |-> 0]

RECURSIVE SumOver(_, _)
SumOver(f, S) ==
    IF S = {} THEN 0
    ELSE LET x == CHOOSE y \in S : TRUE IN f[x] + SumOver(f, S \ {x})

ElInflight == SumOver(inflight.el, KnownZones)

\* await Promise.all([...]) of start(), server.js:1647-1651: resumes when
\* the three invocations have returned.
AnyInitialFetchSettled ==
    \/ ElInflight = 0
    \/ inflight.btc = 0
    \/ inflight.net = 0

InitialFetchesSettled ==
    /\ ElInflight = 0
    /\ inflight.btc = 0
    /\ inflight.net = 0

-----------------------------------------------------------------------------
(* start(), server.js:1641-1674.                                           *)

MarketInit ==
    /\ phase = "boot"
    /\ electricityPriceCache = InitElectricityPriceCache
    /\ btcPriceCache = InitBtcPriceCache
    /\ networkStatsCache = InitNetworkStatsCache
    /\ inflight = NoneInflight
    /\ initialDone = {}
    /\ obs = NoObs

\* loadConfig() rethrows what is not ENOENT (server.js:1396): start() rejects
\* and the process exits.
StartFails ==
    /\ phase = "boot"
    /\ phase' = "exited"
    /\ UNCHANGED <<electricityPriceCache, btcPriceCache, networkStatsCache,
                   inflight, initialDone, obs>>
    /\ UNCHANGED notMarket

\* The three fetchers are called in turn, each running to its await; an
\* unknown configured country or zone ends fetchElectricityPrices at once.
Start(country, zone) ==
    /\ phase = "boot"
    /\ phase' = "fetching"
    /\ LET lookup == ElectricityLookup(country, zone)
           r == TryCatch([cache |-> electricityPriceCache, exc |-> lookup,
                          assigned |-> FALSE])
       IN  IF lookup = "none"
           THEN /\ inflight' = [el |-> [z \in KnownZones |-> IF z = zone THEN 1 ELSE 0],
                                btc |-> 1, net |-> 1]
                /\ UNCHANGED <<obs, initialDone>>
           ELSE /\ inflight' = [NoneInflight EXCEPT !.btc = 1, !.net = 1]
                /\ obs' = ReturnOf("fetchElectricityPrices", r)
                /\ initialDone' = {"fetchElectricityPrices"}
    /\ UNCHANGED <<electricityPriceCache, btcPriceCache, networkStatsCache>>
    /\ UNCHANGED notMarket

\* The timers are set and the server listens once Promise.all has resolved.
StartListen ==
    /\ phase = "fetching"
    /\ InitialFetchesSettled
    /\ phase' = "running"
    /\ UNCHANGED <<electricityPriceCache, btcPriceCache, networkStatsCache,
                   inflight, initialDone, obs>>
    /\ UNCHANGED notMarket

-----------------------------------------------------------------------------
(* Invocations of the fetchers by the timers and by the routes.            *)

CallFetchElectricityPrices(country, zone) ==
    /\ phase = "running"
    /\ LET lookup == ElectricityLookup(country, zone)
           r == TryCatch([cache |-> electricityPriceCache, exc |-> lookup,
                          assigned |-> FALSE])
       IN  IF lookup = "none"
           THEN /\ ElInflight < MaxInflight
                /\ inflight' = [inflight EXCEPT !.el[zone] = @ + 1]
                /\ UNCHANGED obs
           ELSE /\ obs' = ReturnOf("fetchElectricityPrices", r)
                /\ UNCHANGED inflight
    /\ UNCHANGED <<phase, electricityPriceCache, btcPriceCache, networkStatsCache,
                   initialDone>>
    /\ UNCHANGED notMarket

\* setInterval, server.js:1653-1656: the cache's own country and zone.
TimerElectricity ==
    CallFetchElectricityPrices(electricityPriceCache.country,
                               electricityPriceCache.zone)

\* GET /api/electricity/prices, server.js:1582-1592, when the cache is
\* unfetched, of another zone or older than 30 minutes; and POST /api/config,
\* server.js:1532, always.
RouteElectricityPrices(country, zone) ==
    CallFetchElectricityPrices(country, zone)

CallFetchBTCPrice ==
    /\ phase = "running"
    /\ inflight.btc < MaxInflight
    /\ inflight' = [inflight EXCEPT !.btc = @ + 1]
    /\ UNCHANGED <<phase, electricityPriceCache, btcPriceCache, networkStatsCache,
                   initialDone, obs>>
    /\ UNCHANGED notMarket

\* setInterval(fetchBTCPrice, 5 min), server.js:1657.
TimerBTC == CallFetchBTCPrice

\* GET /api/btc/price, server.js:1599-1604, when unfetched or stale.
RouteBTCPrice == CallFetchBTCPrice

CallFetchNetworkStats ==
    /\ phase = "running"
    /\ inflight.net < MaxInflight
    /\ inflight' = [inflight EXCEPT !.net = @ + 1]
    /\ UNCHANGED <<phase, electricityPriceCache, btcPriceCache, networkStatsCache,
                   initialDone, obs>>
    /\ UNCHANGED notMarket

\* setInterval(fetchNetworkStats, 10 min), server.js:1658.
TimerNetwork == CallFetchNetworkStats

\* GET /api/network/stats, server.js:1611-1616, when unfetched or stale.
RouteNetworkStats == CallFetchNetworkStats

-----------------------------------------------------------------------------
(* Resumption of a fetcher when its request settles.                       *)

NoteInitial(fetcher) ==
    initialDone' = IF phase = "fetching" THEN initialDone \cup {fetcher}
                   ELSE initialDone

ElectricityDone(zone, res) ==
    /\ inflight.el[zone] > 0
    /\ LET r == TryCatch(FetchElectricityPricesTry(electricityPriceCache,
                                                   "norway", zone, res))
       IN  /\ electricityPriceCache' = r.cache
           /\ obs' = ReturnOf("fetchElectricityPrices", r)
    /\ inflight' = [inflight EXCEPT !.el[zone] = @ - 1]
    /\ NoteInitial("fetchElectricityPrices")
    /\ UNCHANGED <<phase, btcPriceCache, networkStatsCache>>
    /\ UNCHANGED notMarket

BTCDone(res) ==
    /\ inflight.btc > 0
    /\ LET r == TryCatch(FetchBTCPriceTry(btcPriceCache, res))
       IN  /\ btcPriceCache' = r.cache
           /\ obs' = ReturnOf("fetchBTCPrice", r)
    /\ inflight' = [inflight EXCEPT !.btc = @ - 1]
    /\ NoteInitial("fetchBTCPrice")
    /\ UNCHANGED <<phase, electricityPriceCache, networkStatsCache>>
    /\ UNCHANGED notMarket

NetworkDone(res) ==
    /\ inflight.net > 0
    /\ LET r == TryCatch(FetchNetworkStatsTry(networkStatsCache, res))
       IN  /\ networkStatsCache' = r.cache
           /\ obs' = ReturnOf("fetchNetworkStats", r)
    /\ inflight' = [inflight EXCEPT !.net = @ - 1]
    /\ NoteInitial("fetchNetworkStats")
    /\ UNCHANGED <<phase, electricityPriceCache, btcPriceCache>>
    /\ UNCHANGED notMarket

-----------------------------------------------------------------------------
(* Readers of the caches.                                                  *)

\* A WebSocket tick or GET /api/miner/stats whose getMinerStats has received
\* the device's answers: the snapshot is built and sent.  The awaits before
\* it read no cache, so the block may run at any moment after start-up.
PollSnapshot ==
    /\ phase = "running"
    /\ obs' = SnapshotOf("getMinerStats", GetMinerStatsView)
    /\ UNCHANGED <<phase, electricityPriceCache, btcPriceCache, networkStatsCache,
                   inflight, initialDone>>
    /\ UNCHANGED notMarket

\* The aggregation failed, or no miner is configured: the message carries
\* the three caches.
PollError ==
    /\ phase = "running"
    /\ obs' = SnapshotOf("sendStats", WsErrorView)
    /\ UNCHANGED <<phase, electricityPriceCache, btcPriceCache, networkStatsCache,
                   inflight, initialDone>>
    /\ UNCHANGED notMarket

RouteRespond(fetcher) ==
    /\ phase = "running"
    /\ obs' = RouteResponseOf(fetcher)
    /\ UNCHANGED <<phase, electricityPriceCache, btcPriceCache, networkStatsCache,
                   inflight, initialDone>>
    /\ UNCHANGED notMarket

-----------------------------------------------------------------------------
MarketNext ==
    \/ StartFails
    \/ \E country \in CountryArgs, zone \in ZoneArgs : Start(country, zone)
    \/ StartListen
    \/ TimerElectricity
    \/ \E country \in CountryArgs, zone \in ZoneArgs :
          RouteElectricityPrices(country, zone)
    \/ TimerBTC
    \/ RouteBTCPrice
    \/ TimerNetwork
    \/ RouteNetworkStats
    \/ \E zone \in KnownZones, res \in HttpsGet(ElectricityBodies, ElectricityData) :
          ElectricityDone(zone, res)
    \/ \E res \in HttpsGet(BtcBodies, BtcData) : BTCDone(res)
    \/ \E res \in HttpsGet(NetworkBodies, NetworkData) : NetworkDone(res)
    \/ PollSnapshot
    \/ PollError
    \/ \E fetcher \in Fetchers : RouteRespond(fetcher)

-----------------------------------------------------------------------------
(* sendCGMinerCommand(ip, command), server.js:684-719: one TCP connection   *)
(* to port 4028, the reply collected chunk by chunk and parsed when the     *)
(* device closes the stream.                                                *)

MaxWire == 5          \* bytes of a reply that are kept
TimeoutTicks == 2     \* the 10000 ms of client.setTimeout, in ticks

\* The bytes a device may send: the digit 1, a double quote, the two bytes
\* of a two-byte UTF-8 character (C3 A9), and the null byte.
Bytes == {"1", "q", "C3", "A9", "00"}

\* Replies of digits and null bytes, for the runs that are about the
\* connection and not about the text.
SendBytes == {"1", "00"}

NoValue == <<>>
Unknown == <<"unknown">>

\* chunk.toString(), server.js:695: UTF-8 decoding of one Buffer on its own.
\* A lead byte without its continuation byte, and a continuation byte
\* without its lead byte, each decode to U+FFFD.
RECURSIVE ChunkToString(_)
ChunkToString(chunk) ==
    IF chunk = <<>> THEN <<>>
    ELSE IF chunk[1] = "C3"
    THEN IF Len(chunk) >= 2 /\ chunk[2] = "A9"
         THEN <<"e9">> \o ChunkToString(SubSeq(chunk, 3, Len(chunk)))
         ELSE <<"FFFD">> \o ChunkToString(Tail(chunk))
    ELSE IF chunk[1] = "A9"
    THEN <<"FFFD">> \o ChunkToString(Tail(chunk))
    ELSE <<chunk[1]>> \o ChunkToString(Tail(chunk))

\* data.replace(/\0/g, ''), server.js:700: every null character is removed.
RECURSIVE Cleaned(_)
Cleaned(text) ==
    IF text = <<>> THEN <<>>
    ELSE IF text[1] = "00" THEN Cleaned(Tail(text))
    ELSE <<text[1]>> \o Cleaned(Tail(text))

\* JSON.parse, server.js:702, on the texts of this alphabet: a run of digits
\* is a number, a quoted run of characters without quote or control
\* character is a string, anything else (the empty text too) is a
\* SyntaxError.
JSONParse(text) ==
    IF text # <<>> /\ \A i \in 1..Len(text) : text[i] = "1"
    THEN [ok |-> TRUE, val |-> <<"number">> \o text]
    ELSE IF /\ Len(text) >= 2
            /\ text[1] = "q"
            /\ text[Len(text)] = "q"
            /\ \A i \in 2..(Len(text) - 1) : text[i] \notin {"q", "00"}
    THEN [ok |-> TRUE, val |-> <<"string">> \o SubSeq(text, 2, Len(text) - 1)]
    ELSE [ok |-> FALSE, val |-> NoValue]

\* new Promise((resolve, reject) => ...), server.js:685: the first resolve
\* or reject settles the promise, the later ones are ignored.
SettleOverwrites(current, settlement) == settlement

Settle(current, settlement) ==
    IF current.outcome = "pending" THEN settlement ELSE current

Promise == [outcome |-> outcome, result |-> result]

\* client.on('end', ...), server.js:698-707.
OnEnd(text) ==
    LET parsed == JSONParse(Cleaned(text))
    IN  IF parsed.ok
        THEN [outcome |-> "resolved", result |-> parsed.val]
        ELSE [outcome |-> "ProtocolError", result |-> NoValue]

\* client.on('error', ...), server.js:709-712.
OnError == [outcome |-> "ConnectionError", result |-> NoValue]

\* The callback of client.setTimeout, server.js:714-717.
OnTimeoutReject == [outcome |-> "TimeoutError", result |-> NoValue]

NoteFirst(event) == first' = IF first = "none" THEN event ELSE first

TimerRuns == sock \in {"connecting", "open", "ended"}

SendInit ==
    /\ sock = "none"
    /\ connects = 0
    /\ written = FALSE
    /\ pending = <<>>
    /\ wire = <<>>
    /\ overflow = FALSE
    /\ data = <<>>
    /\ idle = 0
    /\ outcome = "none"
    /\ result = NoValue
    /\ first = "none"

\* The executor of the promise: net.connect, the listeners, setTimeout.
Call ==
    /\ sock = "none"
    /\ sock' = "connecting"
    /\ connects' = connects + 1
    /\ outcome' = "pending"
    /\ idle' = 0
    /\ UNCHANGED <<written, pending, wire, overflow, data, result, first>>
    /\ UNCHANGED notSend

\* The connect callback, server.js:686-690: the command is written.
Connected ==
    /\ sock = "connecting"
    /\ sock' = "open"
    /\ written' = TRUE
    /\ idle' = 0
    /\ UNCHANGED <<connects, pending, wire, overflow, data, outcome, result, first>>
    /\ UNCHANGED notSend

\* The connection is refused or the host is unreachable: 'error'.
ConnectError ==
    /\ sock = "connecting"
    /\ LET p == Settle(Promise, OnError)
       IN  outcome' = p.outcome /\ result' = p.result
    /\ NoteFirst("error")
    /\ sock' = "failed"
    /\ UNCHANGED <<connects, written, pending, wire, overflow, data, idle>>
    /\ UNCHANGED notSend

\* A byte of the reply arrives at the socket.
SocketReceive(b) ==
    /\ sock = "open"
    /\ Len(wire) < MaxWire
    /\ ~overflow
    /\ pending' = Append(pending, b)
    /\ wire' = Append(wire, b)
    /\ UNCHANGED <<sock, connects, written, overflow, data, idle, outcome, result, first>>
    /\ UNCHANGED notSend

\* client.on('data', ...), server.js:694-696, with the bytes that have
\* arrived as one chunk; reading restarts the socket's timeout.
OnData ==
    /\ sock = "open"
    /\ pending # <<>>
    /\ data' = data \o ChunkToString(pending)
    /\ pending' = <<>>
    /\ idle' = 0
    /\ UNCHANGED <<sock, connects, written, wire, overflow, outcome, result, first>>
    /\ UNCHANGED notSend

\* A chunk beyond the bytes that are kept: only its arrival is recorded.
OnDataBeyond ==
    /\ sock = "open"
    /\ pending = <<>>
    /\ Len(wire) = MaxWire
    /\ overflow' = TRUE
    /\ idle' = 0
    /\ UNCHANGED <<sock, connects, written, pending, wire, data, outcome, result, first>>
    /\ UNCHANGED notSend

\* The device closes the stream: 'end', after the last 'data'.  Of a text
\* that was not kept whole, the parse may go either way.
RemoteEnd ==
    /\ sock = "open"
    /\ pending = <<>>
    /\ \E settlement \in IF overflow
                         THEN {[outcome |-> "resolved", result |-> Unknown],
                               [outcome |-> "ProtocolError", result |-> NoValue]}
                         ELSE {OnEnd(data)} :
          LET p == Settle(Promise, settlement)
          IN  outcome' = p.outcome /\ result' = p.result
    /\ NoteFirst("end")
    /\ sock' = "ended"
    /\ UNCHANGED <<connects, written, pending, wire, overflow, data, idle>>
    /\ UNCHANGED notSend

\* The connection breaks (reset, broken pipe): 'error', and the socket
\* is closed with an error.
SocketError ==
    /\ sock \in {"open", "ended"}
    /\ LET p == Settle(Promise, OnError)
       IN  outcome' = p.outcome /\ result' = p.result
    /\ NoteFirst("error")
    /\ sock' = "failed"
    /\ UNCHANGED <<connects, written, pending, wire, overflow, data, idle>>
    /\ UNCHANGED notSend

\* The socket closes after 'end'.
Close ==
    /\ sock = "ended"
    /\ sock' = "closed"
    /\ UNCHANGED <<connects, written, pending, wire, overflow, data, idle,
                   outcome, result, first>>
    /\ UNCHANGED notSend

\* Time passes without activity on the socket.
Tick ==
    /\ TimerRuns
    /\ idle < TimeoutTicks
    /\ idle' = idle + 1
    /\ UNCHANGED <<sock, connects, written, pending, wire, overflow, data,
                   outcome, result, first>>
    /\ UNCHANGED notSend

\* 'timeout': the socket has been idle for the whole interval;
\* client.destroy() and reject, server.js:714-717.
OnTimeout ==
    /\ TimerRuns
    /\ idle = TimeoutTicks
    /\ sock' = "destroyed"
    /\ LET p == Settle(Promise, OnTimeoutReject)
       IN  outcome' = p.outcome /\ result' = p.result
    /\ NoteFirst("timeout")
    /\ UNCHANGED <<connects, written, pending, wire, overflow, data, idle>>
    /\ UNCHANGED notSend

SendNext ==
    \/ Call
    \/ Connected
    \/ ConnectError
    \/ \E b \in SendBytes : SocketReceive(b)
    \/ OnData
    \/ OnDataBeyond
    \/ RemoteEnd
    \/ SocketError
    \/ Close
    \/ Tick
    \/ OnTimeout

ReplyNext ==
    \/ Call
    \/ Connected
    \/ \E b \in Bytes : SocketReceive(b)
    \/ OnData
    \/ RemoteEnd
    \/ Close

-----------------------------------------------------------------------------
(* getMinerStats(ip, config), server.js:915-1347: the requests it makes to  *)
(* the device, the order it makes them in, and what it does with the        *)
(* answers.                                                                 *)

CoreCommands == {"summary", "stats", "pools"}

Requests == {"fetchBraiinsGraphQL", "fetchBraiinsHTTPApi", "devs"} \cup CoreCommands

Settled == {"fulfilled", "rejected"}

Rejection == [status |-> "rejected", content |-> "-"]

Fulfilments(contents) == {[status |-> "fulfilled", content |-> c] : c \in contents}

\* fetchBraiinsGraphQL, server.js:108-396, returns an object: without data
\* (data: null), with data of the shapes the processing expects, or with
\* data one of whose lists (fans, hashChains, hashboards) holds a null.  It
\* can throw on an introspection answer of an unexpected shape.
GraphQLContents == {"noData", "data", "nullElement"}

\* fetchBraiinsHTTPApi, server.js:454-497, resolves with the parsed body, or
\* with null on any error; it never rejects.
HTTPApiContents == {"null", "object"}

\* What the device may answer to devs: JSON null, an object without DEVS,
\* an object whose DEVS is a list, an object whose DEVS is a number.
DevsContents == {"jsonNull", "noDEVS", "list", "scalarDEVS"}

\* What the device may answer to summary, stats or pools: an object, or
\* JSON null.
CoreContents == {"object", "jsonNull"}

\* Lines 919-950: which requests are made on reaching each await.
IssuedAtOnce(stage) ==
    IF stage = "graphql" THEN Requests \ {"fetchBraiinsHTTPApi"} ELSE {}

IssuedAt(stage) ==
    CASE stage = "graphql" -> {"fetchBraiinsGraphQL"}
      [] stage = "httpapi" -> {"fetchBraiinsHTTPApi"}
      [] stage = "devs" -> {"devs"}
      [] stage = "core" -> CoreCommands
      [] OTHER -> {}

Issue(stage, r) ==
    [q \in Requests |-> IF q \in IssuedAt(stage) THEN "pending" ELSE r[q]]

\* if (!graphqlData), server.js:930: the HTTP API is tried when
\* fetchBraiinsGraphQL threw.
AfterGraphQL(settlement) ==
    IF settlement.status = "rejected" THEN "httpapi" ELSE "devs"

\* Lines 952-1342, run in one piece once Promise.all has resolved.  The
\* statements that read the answers without a guard: summary.SUMMARY,
\* stats.STATS and pools.POOLS (952, 956, 1028) on a null answer;
\* devs.DEVS.forEach (973) on a DEVS that is no list; fan.rpm, chain.temperature
\* and board.stats (1052, 1085, 1176) on a null element.
Process(rep) ==
    IF \E c \in CoreCommands : rep[c] = "jsonNull" THEN "TypeError"
    ELSE IF rep["devs"] = "scalarDEVS" THEN "TypeError"
    ELSE IF rep["fetchBraiinsGraphQL"] = "nullElement" THEN "TypeError"
    ELSE "snapshot"

\* The outer catch, server.js:1343-1346, rethrows whatever was raised.
Outer(ending) == IF ending = "snapshot" THEN "snapshot" ELSE "failed"

StatsInit ==
    /\ pc = "idle"
    /\ req = [q \in Requests |-> "unsent"]
    /\ reply = [q \in Requests |-> "-"]
    /\ statsResult = "none"

Note(q, settlement) ==
    reply' = [reply EXCEPT ![q] = settlement.content]

\* The call, up to the first await (server.js:916-924).
GetMinerStats ==
    /\ pc = "idle"
    /\ pc' = "graphql"
    /\ req' = Issue("graphql", req)
    /\ UNCHANGED <<reply, statsResult>>
    /\ UNCHANGED notStats

\* fetchBraiinsGraphQL has returned or thrown (server.js:923-936).
GraphQLSettles(settlement) ==
    /\ pc = "graphql"
    /\ req["fetchBraiinsGraphQL"] = "pending"
    /\ Note("fetchBraiinsGraphQL", settlement)
    /\ pc' = AfterGraphQL(settlement)
    /\ req' = Issue(AfterGraphQL(settlement),
                    [req EXCEPT !["fetchBraiinsGraphQL"] = settlement.status])
    /\ UNCHANGED statsResult
    /\ UNCHANGED notStats

\* fetchBraiinsHTTPApi has resolved (server.js:931-941).
HTTPApiSettles(settlement) ==
    /\ pc = "httpapi"
    /\ req["fetchBraiinsHTTPApi"] = "pending"
    /\ Note("fetchBraiinsHTTPApi", settlement)
    /\ pc' = "devs"
    /\ req' = Issue("devs", [req EXCEPT !["fetchBraiinsHTTPApi"] = settlement.status])
    /\ UNCHANGED statsResult
    /\ UNCHANGED notStats

\* The devs command has settled (server.js:940-950): the three core
\* commands are sent.
DevsSettles(settlement) ==
    /\ pc = "devs"
    /\ req["devs"] = "pending"
    /\ Note("devs", settlement)
    /\ pc' = "core"
    /\ req' = Issue("core", [req EXCEPT !["devs"] = settlement.status])
    /\ UNCHANGED statsResult
    /\ UNCHANGED notStats

\* A core command settles when Promise.all has already rejected: nothing
\* is waiting for it.
CoreSettlesUnawaited(c, settlement) ==
    /\ pc # "core"
    /\ req[c] = "pending"
    /\ Note(c, settlement)
    /\ req' = [req EXCEPT ![c] = settlement.status]
    /\ UNCHANGED <<pc, statsResult>>
    /\ UNCHANGED notStats

\* A core command settles while Promise.all is awaited (server.js:946-950):
\* the first rejection rejects it, the last fulfilment resolves it and the
\* rest of the function runs.
CoreSettles(c, settlement) ==
    /\ pc = "core"
    /\ req[c] = "pending"
    /\ Note(c, settlement)
    /\ req' = [req EXCEPT ![c] = settlement.status]
    /\ IF settlement.status = "rejected"
       THEN pc' = "done" /\ statsResult' = Outer("rejected")
       ELSE IF \A d \in CoreCommands \ {c} : req[d] = "fulfilled"
       THEN pc' = "done" /\ statsResult' = Outer(Process(reply'))
       ELSE UNCHANGED <<pc, statsResult>>
    /\ UNCHANGED notStats

StatsNext ==
    \/ GetMinerStats
    \/ \E settlement \in {Rejection} \cup Fulfilments(GraphQLContents) :
          GraphQLSettles(settlement)
    \/ \E settlement \in Fulfilments(HTTPApiContents) : HTTPApiSettles(settlement)
    \/ \E settlement \in {Rejection} \cup Fulfilments(DevsContents) :
          DevsSettles(settlement)
    \/ \E c \in CoreCommands, settlement \in {Rejection} \cup Fulfilments(CoreContents) :
          CoreSettles(c, settlement)
    \/ \E c \in CoreCommands, settlement \in {Rejection} \cup Fulfilments(CoreContents) :
          CoreSettlesUnawaited(c, settlement)

-----------------------------------------------------------------------------
(* graphqlRequest(ip, query), server.js:401-449, and fetchBraiinsGraphQL,   *)
(* server.js:108-396: nine introspection requests, then the candidate data  *)
(* queries one after the other until one succeeds.                          *)

\* The types introspected, in the order of lines 110-309.
introspections ==
    <<"__schema", "BosminerQuery", "BosQuery", "BosInfo", "Manager",
      "BosminerInfo", "Fan", "TempCtrlInfo", "WorkSolverInfo">>

\* `queries`, server.js:311-372, in the order they are pushed.
queries == <<"fans", "hashboards", "hashrate", "summary", "hostname">>

\* What the device may do with a request: the connection fails, nothing
\* arrives for 10 s, or an HTTP response arrives with a status and a body.
Statuses == {"200", "401", "500"}

\* Bodies: not JSON; a GraphQL result with data, with data and errors, with
\* errors only, with data: null; the same of an introspection, whose fields
\* are a list of objects or (from an endpoint that is no GraphQL server)
\* something else.
QueryBodies == {"text", "data", "dataAndErrors", "errors", "dataNull"}

IntrospectionBodies == {"text", "fields", "oddFields", "errors"}

Responses(bodies) ==
    {[transport |-> t, status |-> "-", body |-> "-"] : t \in {"error", "timeout"}}
    \cup {[transport |-> "response", status |-> st, body |-> b] :
             st \in Statuses, b \in bodies}

\* graphqlRequest: 'error' and 'timeout' resolve null (437-446); a
\* response is parsed whatever its status, and resolves with the parsed
\* body, or null when JSON.parse throws (426-434).
GraphqlRequest(response) ==
    IF response.transport # "response" THEN [settle |-> "resolve", value |-> Null]
    ELSE IF response.body = "text" THEN [settle |-> "resolve", value |-> Null]
    ELSE [settle |-> "resolve", value |-> response.body]

NoResponse == [transport |-> "-", status |-> "-", body |-> "-"]

NoResult == [data |-> "-", query |-> "-"]

LastRequest(response) ==
    [response |-> response,
     value |-> GraphqlRequest(response).value,
     raised |-> GraphqlRequest(response).settle = "reject"]

\* if (result?.data && !result.errors), server.js:379.
SucceedsWithErrors(value) == value \in {"data", "dataAndErrors"}

Succeeds(value) == value = "data"

\* Lines 137-153, 175-309: fields.map(f => f.name) on what is no list of
\* objects raises a TypeError, which nothing in the function catches.
IntrospectionThrows(value) == value = "oddFields"

NoData == [data |-> Null, query |-> "-"]

GqlInit ==
    /\ gqlPhase = "idle"
    /\ gqlIndex = 0
    /\ gqlSent = <<>>
    /\ gqlLast = [response |-> NoResponse, value |-> "-", raised |-> FALSE]
    /\ gqlResult = NoResult

\* The call, up to the first await (server.js:108-135).
FetchBraiinsGraphQL ==
    /\ gqlPhase = "idle"
    /\ gqlPhase' = "introspect"
    /\ gqlIndex' = 1
    /\ UNCHANGED <<gqlSent, gqlLast, gqlResult>>
    /\ UNCHANGED notGql

\* An introspection request has resolved: its fields are logged and the
\* next request is made, the first candidate query after the last one.
IntrospectionSettles(response) ==
    /\ gqlPhase = "introspect"
    /\ LET value == GraphqlRequest(response).value
       IN  /\ gqlLast' = LastRequest(response)
           /\ IF IntrospectionThrows(value)
              THEN gqlPhase' = "threw" /\ UNCHANGED gqlIndex
              ELSE IF gqlIndex < Len(introspections)
              THEN gqlIndex' = gqlIndex + 1 /\ UNCHANGED gqlPhase
              ELSE gqlPhase' = "query" /\ gqlIndex' = 1
    /\ UNCHANGED <<gqlSent, gqlResult>>
    /\ UNCHANGED notGql

\* A candidate query has resolved (server.js:375-395): its result is
\* returned when it succeeded, else the next one is sent, and after the
\* last one an object without data is returned.
QuerySettles(response) ==
    /\ gqlPhase = "query"
    /\ LET value == GraphqlRequest(response).value
       IN  /\ gqlLast' = LastRequest(response)
           /\ gqlSent' = Append(gqlSent, [query |-> queries[gqlIndex], value |-> value])
           /\ IF Succeeds(value)
              THEN /\ gqlPhase' = "returned"
                   /\ gqlResult' = [data |-> value, query |-> queries[gqlIndex]]
                   /\ UNCHANGED gqlIndex
              ELSE IF gqlIndex < Len(queries)
              THEN /\ gqlIndex' = gqlIndex + 1
                   /\ UNCHANGED <<gqlPhase, gqlResult>>
              ELSE /\ gqlPhase' = "returned"
                   /\ gqlResult' = NoData
                   /\ UNCHANGED gqlIndex
    /\ UNCHANGED notGql

GqlNext ==
    \/ FetchBraiinsGraphQL
    \/ \E response \in Responses(IntrospectionBodies) : IntrospectionSettles(response)
    \/ \E response \in Responses(QueryBodies) : QuerySettles(response)

-----------------------------------------------------------------------------
(* One WebSocket connection, server.js:1679-1735: sendStats, the 5 s timer  *)
(* and the listeners of the socket.  Poll 1 is the sendStats the connection *)
(* handler awaits; the others are started by the timer, one per tick.       *)

MaxPolls == 3          \* the polls of one connection
HistoryInterval == 2   \* historySaveInterval, in ticks of the poll timer

Polls == 1..MaxPolls

\* loadConfig (server.js:1381-1398): the stored configuration with or
\* without a miner address, or a read or parse error.
ConfigOutcomes == {"miner", "no miner", "throws"}

\* getMinerStats: a snapshot, or the error of a failed aggregation.
MinerStatsOutcomes == {"snapshot", "throws"}

\* ws.send on a socket that is no longer open, which the installed version
\* of the library decides: the message is dropped, or send throws.
SendAfterClose == {"dropped", "throws"}

NoSettle == [poll |-> 0, outcome |-> "-", open |-> FALSE]

WsInit ==
    /\ readyState = "NONE"
    /\ interval = "unset"
    /\ listening = FALSE
    /\ poll = [p \in Polls |-> "unstarted"]
    /\ sent = <<>>
    /\ now = HistoryInterval + 1
    /\ lastHistorySave = 0
    /\ lastSettle = NoSettle
    /\ unhandled = FALSE

\* JSON.stringify({error, electricity: electricityPriceCache, btcPrice:
\* btcPriceCache, network: networkStatsCache}), server.js:1689-1694, 1707-1712.
ErrorMessage(p, error) ==
    [poll |-> p, kind |-> "error", error |-> error,
     caches |-> <<electricityPriceCache, btcPriceCache, networkStatsCache>>]

\* JSON.stringify(stats), server.js:1699.
StatsMessage(p) == [poll |-> p, kind |-> "stats", error |-> "-", caches |-> <<>>]

\* sendStats has returned or thrown.  When it is the one the connection
\* handler awaits, the handler goes on: it sets the timer and registers the
\* 'close' and 'error' listeners, or rejects with what sendStats threw.
Returns(p, how) ==
    /\ poll' = [poll EXCEPT ![p] = how]
    /\ unhandled' = (unhandled \/ how = "rejected")
    /\ IF p = 1 /\ how = "returned"
       THEN /\ interval' = "set"
            /\ listening' = TRUE
       ELSE UNCHANGED <<interval, listening>>

\* A sendStats without its catch clause: the error leaves the call.
CatchAbsent(p, error, afterClose) ==
    /\ UNCHANGED sent
    /\ Returns(p, "rejected")

\* The catch clause of sendStats, server.js:1705-1713.
Catch(p, error, afterClose) ==
    IF readyState = "OPEN"
    THEN /\ sent' = Append(sent, ErrorMessage(p, error))
         /\ Returns(p, "returned")
    ELSE /\ UNCHANGED sent
         /\ Returns(p, IF afterClose = "throws" THEN "rejected" ELSE "returned")

\* sendStats up to its first await, server.js:1685.
Begin(p) == poll' = [poll EXCEPT ![p] = "loadConfig"]

\* wss.on('connection'), server.js:1679-1716: sendStats is called and awaited.
Connection ==
    /\ phase = "running"
    /\ readyState = "NONE"
    /\ readyState' = "OPEN"
    /\ Begin(1)
    /\ UNCHANGED <<interval, listening, sent, now, lastHistorySave, lastSettle,
                   unhandled>>
    /\ UNCHANGED notWs

\* loadConfig settles, server.js:1685-1696.
ConfigLoaded(p, config, afterClose) ==
    /\ poll[p] = "loadConfig"
    /\ ~unhandled
    /\ IF config = "miner"
       THEN /\ poll' = [poll EXCEPT ![p] = "getMinerStats"]
            /\ UNCHANGED <<interval, listening, sent, unhandled>>
       ELSE IF config = "no miner" /\ readyState = "OPEN"
       THEN /\ sent' = Append(sent, ErrorMessage(p, "No miner configured"))
            /\ Returns(p, "returned")
       ELSE IF config = "no miner" /\ afterClose = "dropped"
       THEN /\ UNCHANGED sent
            /\ Returns(p, "returned")
       ELSE Catch(p, "loadConfig", afterClose)
    /\ UNCHANGED <<readyState, now, lastHistorySave, lastSettle>>
    /\ UNCHANGED notWs

\* getMinerStats settles, server.js:1698-1713: the snapshot is sent and, when
\* the last history entry is older than the interval, saveHistoryEntry is
\* awaited; a rejection is caught.
MinerStatsSettles(p, stats, afterClose) ==
    /\ poll[p] = "getMinerStats"
    /\ ~unhandled
    /\ lastSettle' = [poll |-> p, outcome |-> stats, open |-> readyState = "OPEN"]
    /\ IF stats = "throws"
       THEN Catch(p, "getMinerStats", afterClose)
       ELSE IF readyState # "OPEN" /\ afterClose = "throws"
       THEN Catch(p, "send", afterClose)
       ELSE /\ sent' = IF readyState = "OPEN" THEN Append(sent, StatsMessage(p))
                       ELSE sent
            /\ IF now - lastHistorySave > HistoryInterval
               THEN /\ poll' = [poll EXCEPT ![p] = "saveHistoryEntry"]
                    /\ UNCHANGED <<interval, listening, unhandled>>
               ELSE Returns(p, "returned")
    /\ UNCHANGED <<readyState, now, lastHistorySave>>
    /\ UNCHANGED notWs

\* saveHistoryEntry settles, which it does by resolving (server.js:1417-1442),
\* and lastHistorySave = Date.now() (1703).
HistorySaved(p) ==
    /\ poll[p] = "saveHistoryEntry"
    /\ ~unhandled
    /\ lastHistorySave' = now
    /\ Returns(p, "returned")
    /\ UNCHANGED <<readyState, sent, now, lastSettle>>
    /\ UNCHANGED notWs

\* A callback that does not look at the socket.
StillOpenUnchecked == TRUE

\* ws.readyState === WebSocket.OPEN, server.js:1719.
StillOpen == readyState = "OPEN"

\* The timer's callback, server.js:1718-1724, 5 s after the previous one.
TimerFires ==
    /\ interval = "set"
    /\ ~unhandled
    /\ \E p \in Polls :
          /\ poll[p] = "unstarted"
          /\ \A q \in Polls : q < p => poll[q] # "unstarted"
          /\ IF StillOpen
             THEN /\ Begin(p)
                  /\ UNCHANGED interval
             ELSE /\ interval' = "cleared"
                  /\ UNCHANGED poll
    /\ now' = now + 1
    /\ UNCHANGED <<readyState, listening, sent, lastHistorySave, lastSettle,
                   unhandled>>
    /\ UNCHANGED notWs

\* The client goes away: ws.on('close'), server.js:1726-1729, when the
\* listener is registered by then.
ClientCloses ==
    /\ readyState = "OPEN"
    /\ readyState' = "CLOSED"
    /\ interval' = IF listening /\ interval = "set" THEN "cleared" ELSE interval
    /\ UNCHANGED <<listening, poll, sent, now, lastHistorySave, lastSettle,
                   unhandled>>
    /\ UNCHANGED notWs

\* The connection alone.
ConnectionNext ==
    \/ Connection
    \/ \E p \in Polls, config \in ConfigOutcomes, afterClose \in SendAfterClose :
          ConfigLoaded(p, config, afterClose)
    \/ \E p \in Polls, stats \in MinerStatsOutcomes, afterClose \in SendAfterClose :
          MinerStatsSettles(p, stats, afterClose)
    \/ \E p \in Polls : HistorySaved(p)
    \/ TimerFires
    \/ ClientCloses

\* Every await of a sendStats settles, and the timer keeps firing while it
\* is set.
ConnectionFairness ==
    /\ WF_vars(TimerFires)
    /\ \A p \in Polls :
          /\ WF_vars(\E config \in ConfigOutcomes, afterClose \in SendAfterClose :
                        ConfigLoaded(p, config, afterClose))
          /\ WF_vars(\E stats \in MinerStatsOutcomes, afterClose \in SendAfterClose :
                        MinerStatsSettles(p, stats, afterClose))
          /\ WF_vars(HistorySaved(p))

\* fetchBTCPrice (server.js:571-593) from its call by the timer to its return,
\* as a connection sees it: the cache before, then the cache after.
RefreshBTC(res) ==
    /\ phase = "running"
    /\ btcPriceCache' = TryCatch(FetchBTCPriceTry(btcPriceCache, res)).cache
    /\ UNCHANGED <<phase, electricityPriceCache, networkStatsCache, inflight,
                   initialDone, obs>>
    /\ UNCHANGED notMarket

\* The connection, and the refreshes of the exchange-rate cache that its
\* messages carry, each failing or answered in full.
WsNext ==
    \/ Connection
    \/ \E p \in Polls, config \in ConfigOutcomes, afterClose \in SendAfterClose :
          ConfigLoaded(p, config, afterClose)
    \/ \E p \in Polls, stats \in MinerStatsOutcomes, afterClose \in SendAfterClose :
          MinerStatsSettles(p, stats, afterClose)
    \/ \E p \in Polls : HistorySaved(p)
    \/ TimerFires
    \/ ClientCloses
    \/ \E res \in HttpsGet({}, {"full"}) : RefreshBTC(res)

-----------------------------------------------------------------------------
(* setPowerProfile(ip, profile), server.js:1349-1375: one ascset command    *)
(* sent with sendCGMinerCommand, whose connection is the one modelled       *)
(* above.                                                                   *)

\* const profiles = { low: 2000, medium: 3250, high: 3500 }
profiles == [low |-> 2000, medium |-> 3250, high |-> 3500]

NoPowerResult == [success |-> FALSE, profile |-> "-", power |-> 0, note |-> "-"]

PowerInit ==
    /\ powerProfile = "-"
    /\ powerPc = "idle"
    /\ powerResult = NoPowerResult

\* A setPowerProfile without its catch clause.
PowerCatchAbsent(profile) == [pc |-> "threw", result |-> NoPowerResult]

\* catch (err): { success: true, profile, power: targetPower, note }
PowerCatch(profile) ==
    [pc |-> "returned",
     result |-> [success |-> TRUE, profile |-> profile,
                 power |-> profiles[profile],
                 note |-> "Command sent but response uncertain"]]

\* The call up to its await: the promise of sendCGMinerCommand is pending.
SetPowerProfile ==
    /\ powerPc = "idle"
    /\ outcome = "pending"
    /\ powerPc' = "awaiting"
    /\ UNCHANGED <<powerProfile, powerResult>>
    /\ UNCHANGED notPower

\* The promise settles: the result is returned, or the rejection is caught.
PowerSettles ==
    /\ powerPc = "awaiting"
    /\ outcome \notin {"none", "pending"}
    /\ LET r == IF outcome = "resolved"
                THEN [pc |-> "returned",
                      result |-> [success |-> TRUE, profile |-> powerProfile,
                                  power |-> profiles[powerProfile], note |-> "-"]]
                ELSE PowerCatch(powerProfile)
       IN  /\ powerPc' = r.pc
           /\ powerResult' = r.result
    /\ UNCHANGED powerProfile
    /\ UNCHANGED notPower

PowerNext ==
    \/ SendNext
    \/ SetPowerProfile
    \/ PowerSettles

-----------------------------------------------------------------------------
(* saveHistoryEntry and loadHistory, server.js:1405-1442.  An entry is the  *)
(* number of the call that pushed it.  Calls start in order; a call started *)
(* while another is at an await runs alongside it, as the calls of two      *)
(* connections or of two overlapping polls do.                              *)

MaxSaves == 4     \* calls of saveHistoryEntry
maxEntries == 2   \* server.js:1420 has 720

Saves == 1..MaxSaves

HistoryInit ==
    /\ historyFile = <<>>
    /\ savePc = [c \in Saves |-> "idle"]
    /\ saveHistory = [c \in Saves |-> <<>>]
    /\ appended = <<>>

\* entries.slice(-n)
SliceLast(entries, n) ==
    IF Len(entries) > n THEN SubSeq(entries, Len(entries) - n + 1, Len(entries))
    ELSE entries

\* Lines 1417-1419: the call reaches `await loadHistory()`.
SaveHistoryEntry(c) ==
    /\ savePc[c] = "idle"
    /\ \A b \in Saves : b < c => savePc[b] # "idle"
    /\ savePc' = [savePc EXCEPT ![c] = "loadHistory"]
    /\ UNCHANGED <<historyFile, saveHistory, appended>>
    /\ UNCHANGED notHistory

\* Lines 1405-1415 and 1419-1438: readFile settles.  The entries read (none
\* on ENOENT) get the new entry, are cut to the last maxEntries, and
\* writeFile is awaited; any other error is thrown, and caught at 1439.
HistoryLoaded(c, how) ==
    /\ savePc[c] = "loadHistory"
    /\ IF how = "read"
       THEN /\ saveHistory' = [saveHistory EXCEPT
                                  ![c] = SliceLast(Append(historyFile, c), maxEntries)]
            /\ savePc' = [savePc EXCEPT ![c] = "writeFile"]
       ELSE /\ savePc' = [savePc EXCEPT ![c] = "returned"]
            /\ UNCHANGED saveHistory
    /\ UNCHANGED <<historyFile, appended>>
    /\ UNCHANGED notHistory

\* Lines 1438-1441: writeFile settles; its error is caught and logged.
HistoryWritten(c, how) ==
    /\ savePc[c] = "writeFile"
    /\ IF how = "written"
       THEN /\ historyFile' = saveHistory[c]
            /\ appended' = Append(appended, c)
       ELSE UNCHANGED <<historyFile, appended>>
    /\ savePc' = [savePc EXCEPT ![c] = "returned"]
    /\ UNCHANGED saveHistory
    /\ UNCHANGED notHistory

HistoryNext ==
    \/ \E c \in Saves : SaveHistoryEntry(c)
    \/ \E c \in Saves, how \in {"read", "throws"} : HistoryLoaded(c, how)
    \/ \E c \in Saves, how \in {"written", "throws"} : HistoryWritten(c, how)

-----------------------------------------------------------------------------
(* The service worker, src/unnamed/part_000: networkFirstWithCache          *)
(* (144-182), isCacheableApi (187-190), the 'sync' handler (226-246) and    *)
(* the 'clearCache' message (215-222).                                      *)

MaxRequests == 3   \* API requests handled

\* part_000:27-33
CACHEABLE_API_PATTERNS ==
    {"/api/config", "/api/btc/price", "/api/network/stats", "/api/electricity/prices"}

\* The paths the server answers a GET on under /api/ (server.js:1452-1623).
ApiPaths ==
    CACHEABLE_API_PATTERNS \cup {"/api/miner/stats", "/api/history", "/api/electricity/zones"}

\* urlPath.includes(pattern): no path of the server holds a pattern other
\* than itself.
PathIncludes(urlPath, pattern) == urlPath = pattern

isCacheableApi(url) == \E pattern \in CACHEABLE_API_PATTERNS : PathIncludes(url, pattern)

NoneStored == [from |-> "-", status |-> 0, body |-> "-", fromCache |-> FALSE]

\* A response of the server: 200 or 500, with a body that tells it from others.
NetworkResponses ==
    [from : {"network"}, status : {200, 500}, body : Versions, fromCache : {FALSE}]

\* response.ok
Ok(response) == response.status >= 200 /\ response.status <= 299

SwInit ==
    /\ apiCache = [u \in ApiPaths |-> NoneStored]
    /\ swPc = "idle"
    /\ swRequest = "-"
    /\ swFetched = NoneStored
    /\ swResponse = NoneStored
    /\ swHandled = 0

\* part_000:80-99: a GET under /api/ is answered by networkFirstWithCache,
\* which awaits fetch(request).
FetchEvent(url) ==
    /\ swPc \in {"idle", "responded", "threw"}
    /\ swHandled < MaxRequests
    /\ swPc' = "fetch"
    /\ swRequest' = url
    /\ swFetched' = NoneStored
    /\ swResponse' = NoneStored
    /\ swHandled' = swHandled + 1
    /\ UNCHANGED apiCache
    /\ UNCHANGED notSw

\* Lines 149-158: fetch resolves.  An ok response of a cacheable endpoint
\* waits for caches.open; any other response is returned.
FetchResolves(response) ==
    /\ swPc = "fetch"
    /\ swFetched' = response
    /\ IF Ok(response) /\ isCacheableApi(swRequest)
       THEN swPc' = "open" /\ UNCHANGED swResponse
       ELSE swPc' = "responded" /\ swResponse' = response
    /\ UNCHANGED <<apiCache, swRequest, swHandled>>
    /\ UNCHANGED notSw

\* Lines 159-160: fetch rejects; the catch block awaits caches.match.
FetchRejects ==
    /\ swPc = "fetch"
    /\ swFetched' = [NoneStored EXCEPT !.from = "rejected"]
    /\ swPc' = "match"
    /\ UNCHANGED <<apiCache, swRequest, swResponse, swHandled>>
    /\ UNCHANGED notSw

\* Lines 154-158: caches.open resolves; cache.put is not awaited, the copy
\* is stored or (how = "put fails") it is not; the network response is
\* returned.
CacheOpens(how) ==
    /\ swPc = "open"
    /\ apiCache' = IF how = "put" THEN [apiCache EXCEPT ![swRequest] = swFetched]
                   ELSE apiCache
    /\ swPc' = "responded"
    /\ swResponse' = swFetched
    /\ UNCHANGED <<swRequest, swFetched, swHandled>>
    /\ UNCHANGED notSw

\* Lines 154 and 159: caches.open rejects inside the try block; the catch
\* block awaits caches.match.
CacheOpenRejects ==
    /\ swPc = "open"
    /\ swPc' = "match"
    /\ UNCHANGED <<apiCache, swRequest, swFetched, swResponse, swHandled>>
    /\ UNCHANGED notSw

\* Lines 162-181: caches.match resolves: the stored response with the
\* X-From-Cache header, or the 503 'Offline' response.
CacheMatches ==
    /\ swPc = "match"
    /\ swPc' = "responded"
    /\ swResponse' =
          IF apiCache[swRequest] # NoneStored
          THEN [apiCache[swRequest] EXCEPT !.from = "cache", !.fromCache = TRUE]
          ELSE [from |-> "offline", status |-> 503, body |-> "Offline", fromCache |-> FALSE]
    /\ UNCHANGED <<apiCache, swRequest, swFetched, swHandled>>
    /\ UNCHANGED notSw

\* Line 162: caches.match rejects in the catch block; nothing catches it.
CacheMatchRejects ==
    /\ swPc = "match"
    /\ swPc' = "threw"
    /\ UNCHANGED <<apiCache, swRequest, swFetched, swResponse, swHandled>>
    /\ UNCHANGED notSw

\* Lines 226-246: background sync fetches a pattern and stores an ok response.
BackgroundSync(pattern, response) ==
    /\ Ok(response)
    /\ apiCache' = [apiCache EXCEPT ![pattern] = response]
    /\ UNCHANGED <<swPc, swRequest, swFetched, swResponse, swHandled>>
    /\ UNCHANGED notSw

\* Lines 215-222: the page asks for the caches to be deleted.
ClearCache ==
    /\ apiCache' = [u \in ApiPaths |-> NoneStored]
    /\ UNCHANGED <<swPc, swRequest, swFetched, swResponse, swHandled>>
    /\ UNCHANGED notSw

SwNext ==
    \/ \E url \in ApiPaths : FetchEvent(url)
    \/ \E response \in NetworkResponses : FetchResolves(response)
    \/ FetchRejects
    \/ \E how \in {"put", "put fails"} : CacheOpens(how)
    \/ CacheOpenRejects
    \/ CacheMatches
    \/ CacheMatchRejects
    \/ \E pattern \in CACHEABLE_API_PATTERNS, response \in NetworkResponses : BackgroundSync(pattern, response)
    \/ ClearCache

-----------------------------------------------------------------------------
(* config.json, loadConfig and saveConfig (server.js:1381-1403), and the    *)
(* handlers of POST /api/miner/power (1485-1509), POST /api/config          *)
(* (1511-1539) and GET /api/electricity/prices (1582-1597), each request    *)
(* running from await to await alongside the others and alongside the       *)
(* periodic refresh of the prices (1653-1656).  A grid fee and an address   *)
(* are kept as text.                                                        *)

MaxCalls == 2   \* requests the server receives

Calls == 1..MaxCalls

\* a || b, on text
Either(a, b) == IF a \in {Null, Undef, "", "0"} THEN b ELSE a

\* a ?? b
Coalesce(a, b) == IF a \in {Null, Undef} THEN b ELSE a

\* What loadConfig returns when CONFIG_FILE does not exist.
DefaultConfig ==
    [minerIP |-> Null, currentProfile |-> "medium", country |-> "norway",
     electricityZone |-> "NO5", gridFeePerKwh |-> "0.50",
     priceMode |-> "norgespris"]

\* The file after the settings page has saved a miner address.
ConfigWithMiner == [DefaultConfig EXCEPT !.minerIP = "10.0.0.2"]

\* req.body of POST /api/config: the settings page changes the zone or the
\* grid fee.
ConfigBodies ==
    {[minerIP |-> Undef, currentProfile |-> Undef, country |-> Undef,
      electricityZone |-> "NO4", gridFeePerKwh |-> Undef, priceMode |-> Undef],
     [minerIP |-> Undef, currentProfile |-> Undef, country |-> Undef,
      electricityZone |-> Undef, gridFeePerKwh |-> "0.30", priceMode |-> Undef]}

\* req.body of POST /api/miner/power.
PowerBodies ==
    {[ip |-> Undef, profile |-> "high"], [ip |-> "10.0.0.9", profile |-> "low"],
     [ip |-> Undef, profile |-> "turbo"]}

\* req.query of GET /api/electricity/prices.
PriceQueries == {[country |-> Undef, zone |-> z] : z \in {Undef, "NO4"}}

HttpRequests ==
    {[route |-> "POST /api/config", body |-> b] : b \in ConfigBodies}
    \cup {[route |-> "POST /api/miner/power", body |-> b] : b \in PowerBodies}
    \cup {[route |-> "GET /api/electricity/prices", body |-> b] : b \in PriceQueries}

NoRequest == [route |-> "-", body |-> [none |-> Undef]]

\* What the price API answers a fetchElectricityPrices with: the request
\* fails, or the hourly prices arrive.
PriceResults == {r \in HttpsGet({}, {"prices"}) : r.body # "timeout" /\ r.ver # "v1"}

\* electricityPriceCache after the start-up fetch of the configured zone.
FetchedCache(zone) ==
    FetchElectricityPricesTry(InitElectricityPriceCache, "norway", zone,
        [settle |-> "resolve", body |-> "prices", ver |-> "v1"]).cache

\* No request received yet.
RoutesInit ==
    /\ request = [c \in Calls |-> NoRequest]
    /\ routePc = [c \in Calls |-> "idle"]
    /\ routeConfig = [c \in Calls |-> DefaultConfig]
    /\ routeZone = [c \in Calls |-> "-"]
    /\ routeStatus = [c \in Calls |-> 0]
    /\ commands = <<>>
    /\ refresh = "none"

ConfigInit ==
    /\ configFile = DefaultConfig
    /\ RoutesInit

\* A request arrives: its handler runs to `await loadConfig()`.
Receive(c, r) ==
    /\ routePc[c] = "idle"
    /\ \A b \in Calls : b < c => routePc[b] # "idle"
    /\ request' = [request EXCEPT ![c] = r]
    /\ routePc' = [routePc EXCEPT ![c] = "loadConfig"]
    /\ UNCHANGED <<configFile, routeConfig, routeZone, routeStatus, commands,
                   refresh>>
    /\ UNCHANGED notConfig

\* res.json(...) or res.status(code).json(...): the handler has returned.
Respond(c, code) ==
    /\ routePc' = [routePc EXCEPT ![c] = "responded"]
    /\ routeStatus' = [routeStatus EXCEPT ![c] = code]
    /\ routeConfig' = [routeConfig EXCEPT ![c] = DefaultConfig]
    /\ routeZone' = [routeZone EXCEPT ![c] = "-"]

\* `config = ...` of a handler that goes on to an await.
Hold(c, config) == routeConfig' = [routeConfig EXCEPT ![c] = config]

\* The call of fetchElectricityPrices(country, zone) by a handler.
AwaitPrices(c, zone) ==
    /\ routePc' = [routePc EXCEPT ![c] = "fetchElectricityPrices"]
    /\ routeZone' = [routeZone EXCEPT ![c] = zone]
    /\ UNCHANGED routeStatus

\* A handler that sends whatever it is asked to.
PowerRequestValidUnchecked(ip, profile) == TRUE

\* if (!ip) ...; if (!['low', 'medium', 'high'].includes(profile)) ...
PowerRequestValid(ip, profile) ==
    /\ Either(ip, Undef) # Undef
    /\ profile \in {"low", "medium", "high"}

\* const targetPower = profiles[profile]
TargetPower(profile) ==
    IF profile \in DOMAIN profiles THEN profiles[profile] ELSE 0

\* { command: 'ascset', parameter: `0,power,${targetPower}` } to the device
AscSet(ip, profile) ==
    [ip |-> ip, command |-> "ascset", asc |-> 0, option |-> "power",
     value |-> TargetPower(profile)]

\* POST /api/miner/power from the resumption of loadConfig to its 400 or to
\* the await inside setPowerProfile.
PowerLoaded(c) ==
    LET config == configFile
        ip == Either(request[c].body.ip, config.minerIP)
        profile == request[c].body.profile
    IN  /\ IF PowerRequestValid(ip, profile)
           THEN /\ commands' = Append(commands, AscSet(ip, profile))
                /\ routePc' = [routePc EXCEPT ![c] = "setPowerProfile"]
                /\ Hold(c, config)
                /\ UNCHANGED <<routeStatus, routeZone>>
           ELSE /\ Respond(c, 400)
                /\ UNCHANGED commands
        /\ UNCHANGED <<configFile, electricityPriceCache>>

\* POST /api/config from the resumption of loadConfig to `await saveConfig`.
ConfigPostLoaded(c) ==
    LET existingConfig == configFile
        body == request[c].body
        newCountry == Either(body.country, Either(existingConfig.country, "norway"))
        newZone == Either(body.electricityZone,
                          Either(existingConfig.electricityZone, "NO5"))
    IN  /\ Hold(c,
               [minerIP |-> Either(body.minerIP, existingConfig.minerIP),
                currentProfile |-> Either(body.currentProfile,
                    Either(existingConfig.currentProfile, "medium")),
                country |-> newCountry,
                electricityZone |-> newZone,
                gridFeePerKwh |-> Coalesce(body.gridFeePerKwh,
                    Coalesce(existingConfig.gridFeePerKwh, "0.50")),
                priceMode |-> Either(body.priceMode,
                    Either(existingConfig.priceMode, "norgespris"))])
        /\ routePc' = [routePc EXCEPT ![c] = "saveConfig"]
        /\ UNCHANGED <<configFile, routeZone, routeStatus, commands,
                       electricityPriceCache>>

\* GET /api/electricity/prices from the resumption of loadConfig: the cache
\* is returned, or fetched first when it is unfetched, of another zone or
\* older than 30 minutes.
PricesLoaded(c, stale) ==
    LET config == configFile
        zone == Either(request[c].body.zone, Either(config.electricityZone, "NO5"))
    IN  /\ IF \/ electricityPriceCache.fetchedAt = Null
              \/ electricityPriceCache.zone # zone
              \/ stale
           THEN AwaitPrices(c, zone) /\ Hold(c, config)
           ELSE Respond(c, 200)
        /\ UNCHANGED <<configFile, commands, electricityPriceCache>>

\* loadConfig returns what the file holds at that moment (CONFIG_FILE is
\* absent or readable).
ConfigRead(c, stale) ==
    /\ routePc[c] = "loadConfig"
    /\ IF request[c].route = "POST /api/miner/power" THEN PowerLoaded(c)
       ELSE IF request[c].route = "POST /api/config" THEN ConfigPostLoaded(c)
       ELSE PricesLoaded(c, stale)
    /\ UNCHANGED <<request, refresh>>
    /\ UNCHANGED <<phase, btcPriceCache, networkStatsCache, inflight,
                   initialDone, obs>>
    /\ UNCHANGED notMarketNorConfig

\* setPowerProfile returns, whether the device answered or not (its catch
\* returns success as well): config.currentProfile = profile, then
\* `await saveConfig(config)`.
PowerProfileSet(c) ==
    /\ routePc[c] = "setPowerProfile"
    /\ routeConfig' = [routeConfig EXCEPT ![c].currentProfile =
                          request[c].body.profile]
    /\ routePc' = [routePc EXCEPT ![c] = "saveConfig"]
    /\ UNCHANGED <<configFile, request, routeZone, routeStatus, commands,
                   refresh>>
    /\ UNCHANGED notConfig

\* saveConfig settles: the handler's config has replaced the file, or the
\* write failed.  POST /api/miner/power answers; POST /api/config goes on
\* to fetch the prices of its zone.
ConfigWritten(c, how) ==
    /\ routePc[c] = "saveConfig"
    /\ IF how = "rejected"
       THEN /\ Respond(c, 500)
            /\ UNCHANGED configFile
       ELSE /\ configFile' = routeConfig[c]
            /\ IF request[c].route = "POST /api/config"
               THEN /\ AwaitPrices(c, routeConfig[c].electricityZone)
                    /\ UNCHANGED routeConfig
               ELSE Respond(c, 200)
    /\ UNCHANGED <<request, commands, refresh>>
    /\ UNCHANGED notConfig

\* fetchElectricityPrices from its call to its return: the cache as its
\* try block or its catch clause leaves it.
PricesFetched(country, zone, res) ==
    IF ElectricityLookup(country, zone) = "none"
    THEN TryCatch(FetchElectricityPricesTry(electricityPriceCache, country,
                                            zone, res)).cache
    ELSE electricityPriceCache

\* The fetchElectricityPrices a handler awaits returns: the handler answers
\* with the configuration or with the cache.
PricesSettle(c, res) ==
    /\ routePc[c] = "fetchElectricityPrices"
    /\ electricityPriceCache' =
           PricesFetched(Either(request[c].body.country,
                                Either(routeConfig[c].country, "norway")),
                         routeZone[c], res)
    /\ Respond(c, 200)
    /\ UNCHANGED <<configFile, request, commands, refresh>>
    /\ UNCHANGED <<phase, btcPriceCache, networkStatsCache, inflight,
                   initialDone, obs>>
    /\ UNCHANGED notMarketNorConfig

\* The zone the periodic refresh asks for: the cache's own.
RefreshZone == Either(electricityPriceCache.zone, "NO5")

\* setInterval(() => fetchElectricityPrices(electricityPriceCache.country ||
\* 'norway', electricityPriceCache.zone || 'NO5'), 30 min) fires.
RefreshPrices ==
    /\ refresh = "none"
    /\ refresh' = RefreshZone
    /\ UNCHANGED <<configFile, request, routePc, routeConfig, routeZone,
                   routeStatus, commands>>
    /\ UNCHANGED notConfig

\* The refresh returns.
RefreshSettles(res) ==
    /\ refresh # "none"
    /\ electricityPriceCache' =
           PricesFetched(Either(electricityPriceCache.country, "norway"),
                         refresh, res)
    /\ refresh' = "none"
    /\ UNCHANGED <<configFile, request, routePc, routeConfig, routeZone,
                   routeStatus, commands>>
    /\ UNCHANGED <<phase, btcPriceCache, networkStatsCache, inflight,
                   initialDone, obs>>
    /\ UNCHANGED notMarketNorConfig

ConfigNext ==
    \/ \E c \in Calls, r \in HttpRequests : Receive(c, r)
    \/ \E c \in Calls, stale \in BOOLEAN : ConfigRead(c, stale)
    \/ \E c \in Calls : PowerProfileSet(c)
    \/ \E c \in Calls, how \in Settled : ConfigWritten(c, how)
    \/ \E c \in Calls, res \in PriceResults : PricesSettle(c, res)
    \/ RefreshPrices
    \/ \E res \in PriceResults : RefreshSettles(res)

\* The price API answers.
PriceAnswers == {r \in PriceResults : r.settle = "resolve"}

ConfigNextFetched ==
    \/ \E c \in Calls, r \in HttpRequests : Receive(c, r)
    \/ \E c \in Calls, stale \in BOOLEAN : ConfigRead(c, stale)
    \/ \E c \in Calls : PowerProfileSet(c)
    \/ \E c \in Calls, how \in Settled : ConfigWritten(c, how)
    \/ \E c \in Calls, res \in PriceAnswers : PricesSettle(c, res)
    \/ RefreshPrices
    \/ \E res \in PriceAnswers : RefreshSettles(res)

SettingsRequests == {r \in HttpRequests : r.route = "POST /api/config"}

SettingsNext ==
    \/ \E c \in Calls, r \in SettingsRequests : Receive(c, r)
    \/ \E c \in Calls : ConfigRead(c, FALSE)
    \/ \E c \in Calls, how \in Settled : ConfigWritten(c, how)
    \/ \E c \in Calls, res \in PriceResults : PricesSettle(c, res)
    \/ RefreshPrices
    \/ \E res \in PriceResults : RefreshSettles(res)

SettingsFairness ==
    /\ \A c \in Calls :
          /\ WF_vars(ConfigRead(c, FALSE))
          /\ WF_vars(\E how \in Settled : ConfigWritten(c, how))
          /\ WF_vars(\E res \in PriceResults : PricesSettle(c, res))
    /\ WF_vars(RefreshPrices)
    /\ WF_vars(\E res \in PriceResults : RefreshSettles(res))
    /\ SF_vars(\E res \in PriceAnswers : RefreshSettles(res))

-----------------------------------------------------------------------------
(* The synchronous computations of getMinerStats and calculateEfficiency,   *)
(* each evaluated on inputs drawn from a bounded set.                       *)

NoArgs == [fn |-> "-"]

NoRet == [fn |-> "-"]

EvalInit ==
    /\ args = NoArgs
    /\ ret = NoRet

NothingElse ==
    MarketInit /\ SendInit /\ StatsInit /\ GqlInit /\ WsInit /\ PowerInit
        /\ HistoryInit /\ SwInit /\ ConfigInit

-----------------------------------------------------------------------------
(* Temperatures and fans of the snapshot, server.js:1034-1216.  A reading  *)
(* is null, or carries the name of the source it was taken from; "gql0" is  *)
(* a reading of 0 taken from GraphQL.                                       *)

\* What the GraphQL data holds: a board temperature, a chip temperature, a
\* fan speed, each possibly absent.  Query 1 asks for the fans only.
GraphQLReadings ==
    [board1 : {Null, "gql"}, chip : {Null, "gql0", "gql"}, speed1 : {Null, "gql"}]

\* httpApiData: null, or an object with temp, temp1 and fan1, each possibly absent.
NoHTTPApi == [isNull |-> TRUE, temp |-> Undef, temp1 |-> Undef, fan1 |-> Undef]

HTTPApiReadings ==
    {NoHTTPApi} \cup [isNull : {FALSE}, temp : {Undef, "http"}, temp1 : {Undef, "http"},
                      fan1 : {Undef, "http"}]

\* What extractTemperatures and extractFanSpeeds find in the answers of
\* the protocol commands.
CGMinerReadings ==
    [board1 : {Null, "cgminer"}, chip : {Null, "cgminer"}, speed1 : {Null, "cgminer"}]

ReadingsInputs ==
    [fn : {"readings"}, graphql : GraphQLReadings, httpApi : HTTPApiReadings,
     cgminer : CGMinerReadings]

\* Lines 1039-1193: the readings found in graphqlData.data; the chip
\* temperature defaults to the highest board temperature (1185-1190).
FromGraphQL(g) ==
    [temps |-> [board1 |-> g.board1,
                chip |-> IF g.chip = Null /\ g.board1 # Null THEN g.board1 ELSE g.chip],
     fans |-> [speed1 |-> g.speed1]]

\* Lines 1196-1208: if (httpApiData && temps.chip === null).
FromHTTPApi(h, r) ==
    IF ~h.isNull /\ r.temps.chip = Null
    THEN [temps |-> [board1 |-> IF h.temp1 # Undef THEN h.temp1 ELSE r.temps.board1,
                     chip |-> IF h.temp # Undef THEN h.temp ELSE r.temps.chip],
          fans |-> [speed1 |-> IF h.fan1 # Undef THEN h.fan1 ELSE r.fans.speed1]]
    ELSE r

\* Lines 1211-1216: if (temps.chip === null || temps.chip === 0), temps and
\* fans are both replaced by what the protocol answers give.
Fallback(c, r) ==
    IF r.temps.chip \in {Null, "gql0"}
    THEN [temps |-> [board1 |-> c.board1, chip |-> c.chip],
          fans |-> [speed1 |-> c.speed1]]
    ELSE r

\* Whether the heuristic extractTemperatures / extractFanSpeeds is called.
FallbackTaken(a) ==
    FromHTTPApi(a.httpApi, FromGraphQL(a.graphql)).temps.chip \in {Null, "gql0"}

Readings(a) ==
    Fallback(a.cgminer, FromHTTPApi(a.httpApi, FromGraphQL(a.graphql)))

EvalReadings ==
    /\ args.fn = "readings"
    /\ ret = NoRet
    /\ ret' = [fn |-> "readings", value |-> Readings(args), fallback |-> FallbackTaken(args)]
    /\ UNCHANGED args
    /\ UNCHANGED notEval

-----------------------------------------------------------------------------
(* The reject rate of the snapshot, server.js:1227-1230.                   *)

MaxShares == 3    \* the largest share count tried

RejectRateInputs ==
    [fn : {"rejectRate"}, Accepted : 0..MaxShares, Rejected : 0..MaxShares]

\* A number that is a quotient is kept as the quotient, not rounded.
Quotient(n, d) == [num |-> n, den |-> d]

\* poolData.Accepted || 0, poolData.Rejected || 0, and
\* accepted > 0 ? (rejected / (accepted + rejected)) * 100 : 0.
RejectRate(poolData) ==
    LET accepted == poolData.Accepted
        rejected == poolData.Rejected
    IN  IF accepted > 0
        THEN Quotient(rejected * 100, accepted + rejected)
        ELSE Quotient(0, 1)

EvalRejectRate ==
    /\ args.fn = "rejectRate"
    /\ ret = NoRet
    /\ ret' = [fn |-> "rejectRate", rejectRate |-> RejectRate(args)]
    /\ UNCHANGED args
    /\ UNCHANGED notEval

-----------------------------------------------------------------------------
(* The specifications.                                                     *)

Init ==
    MarketInit /\ SendInit /\ StatsInit /\ GqlInit /\ EvalInit /\ WsInit
        /\ PowerInit /\ HistoryInit /\ SwInit /\ ConfigInit

Next == MarketNext

\* The market-data caches, their fetchers and their readers.
Spec == Init /\ [][Next]_vars

\* One call of sendCGMinerCommand against a device that may do anything.
SpecSend == Init /\ [][SendNext]_vars

\* The same, with time passing and the timeout firing when it is due.
SpecSendFair == SpecSend /\ WF_vars(Tick) /\ WF_vars(OnTimeout)

\* One call of sendCGMinerCommand against a device that answers and closes.
SpecReply == Init /\ [][ReplyNext]_vars

\* One call of getMinerStats.
SpecStats == Init /\ [][StatsNext]_vars

\* One call of fetchBraiinsGraphQL.
SpecGql == Init /\ [][GqlNext]_vars

-----------------------------------------------------------------------------
(* extractTemperatures(statsData, devsData, allStatsData), server.js:       *)
(* 725-841, on combinedData, the three maps merged (line 727).              *)

\* JavaScript values: a number, null, undefined (an absent field).
Num(v) == [type |-> "number", v |-> v]

NullV == [type |-> "null", v |-> 0]

UndefV == [type |-> "undefined", v |-> 0]

\* Truthiness of a value, as || and the conditional read it.
Truthy(x) == x.type = "number" /\ x.v # 0

\* a || b
Or(a, b) == IF Truthy(a) THEN a ELSE b

\* x || 0
OrZero(x) == IF Truthy(x) THEN x.v ELSE 0

\* Math.max(a, b, c)
MathMax(a, b, c) ==
    IF a >= b /\ a >= c THEN a ELSE IF b >= c THEN b ELSE c

\* The field names of each pattern family, as documented at
\* PROJECT_CONTEXT.md:454-464, in the order the fields are listed in an answer.
FamilyKeys ==
    <<  <<"temp_chip_1", "temp_chip_2", "temp_chip_3",
          "temp_pcb_1", "temp_pcb_2", "temp_pcb_3">>,
        <<"temp1", "temp2", "temp3", "temp">>,
        <<"temp2_1", "temp2_2", "temp2_3">>,
        <<"Temperature">>,
        <<"chain_temp1", "chain_temp2", "chain_temp3">>,
        <<"ChipTemp", "board_temp_1", "env_temp">>,
        <<"pcb_a">>  >>

Families == DOMAIN FamilyKeys

KeyOrder ==
    FamilyKeys[1] \o FamilyKeys[2] \o FamilyKeys[3] \o FamilyKeys[4]
        \o FamilyKeys[5] \o FamilyKeys[6] \o FamilyKeys[7]

Keys == {KeyOrder[i] : i \in DOMAIN KeyOrder}

KeysOf(f) == {FamilyKeys[f][i] : i \in DOMAIN FamilyKeys[f]}

\* key.toLowerCase().includes('temp')
IncludesTemp(key) == key # "pcb_a"

\* key.toLowerCase().includes('chip')
IncludesChip(key) == key \in {"temp_chip_1", "temp_chip_2", "temp_chip_3", "ChipTemp"}

\* key.includes(digit)
Includes(key, digit) ==
    CASE digit = "1" -> key \in {"temp_chip_1", "temp_pcb_1", "temp1", "temp2_1",
                                 "chain_temp1", "board_temp_1"}
      [] digit = "2" -> key \in {"temp_chip_2", "temp_pcb_2", "temp2", "temp2_1",
                                 "temp2_2", "temp2_3", "chain_temp2"}
      [] digit = "3" -> key \in {"temp_chip_3", "temp_pcb_3", "temp3", "temp2_3",
                                 "chain_temp3"}

\* k.startsWith('chain_')
StartsWithChain(key) == key \in {"chain_temp1", "chain_temp2", "chain_temp3"}

\* Plausible temperatures.
Temps == {Num(50), Num(70)}

\* The maps that hold fields of one family only, at least one of them.
DataOf(f) ==
    {[k \in Keys |-> IF k \in KeysOf(f) THEN g[k] ELSE UndefV] :
        g \in [KeysOf(f) -> Temps \cup {UndefV}] \ {[k \in KeysOf(f) |-> UndefV]}}

ExtractInputs ==
    UNION {{[fn |-> "extractTemperatures", family |-> f, combinedData |-> d] :
               d \in DataOf(f)} : f \in Families}

\* The fields of family f with values of V, at least one of them present.
Part(f, V) ==
    [KeysOf(f) -> V \cup {UndefV}] \ {[k \in KeysOf(f) |-> UndefV]}

\* { ...a, ...b } for fields of different families.
Merge(a, b) ==
    [k \in Keys |-> IF k \in DOMAIN a THEN a[k]
                    ELSE IF k \in DOMAIN b THEN b[k] ELSE UndefV]

\* Answers with fields of two families, 50 degrees in those of the earlier
\* family and 70 in those of the later one.
MixedInputs ==
    UNION {UNION {{[fn |-> "extractTemperatures", family |-> 0,
                    combinedData |-> Merge(a, b)] :
                      a \in Part(f, {Num(50)}), b \in Part(g, {Num(70)})} :
                  g \in (f + 1)..7} : f \in 1..6}

\* Answers of one family in which a sensor may read 0.
ZeroInputs ==
    UNION {{[fn |-> "extractTemperatures", family |-> 0,
             combinedData |-> Merge(a, a)] : a \in Part(f, {Num(0), Num(50)})} :
           f \in Families}

NoTemps == [board1 |-> NullV, board2 |-> NullV, board3 |-> NullV, chip |-> NullV]

\* Patterns 1 to 5, server.js:749-792: the if / else-if chain.
Cascade(d) ==
    IF d["temp_chip_1"] # UndefV
    THEN [temps |-> [board1 |-> Or(d["temp_pcb_1"], d["temp_chip_1"]),
                     board2 |-> Or(d["temp_pcb_2"], d["temp_chip_2"]),
                     board3 |-> Or(d["temp_pcb_3"], d["temp_chip_3"]),
                     chip |-> Num(MathMax(OrZero(d["temp_chip_1"]),
                                          OrZero(d["temp_chip_2"]),
                                          OrZero(d["temp_chip_3"])))],
          found |-> {1}]
    ELSE IF d["temp1"] # UndefV
    THEN [temps |-> [board1 |-> d["temp1"], board2 |-> d["temp2"], board3 |-> d["temp3"],
                     chip |-> Or(d["temp"], Num(MathMax(OrZero(d["temp1"]),
                                                        OrZero(d["temp2"]),
                                                        OrZero(d["temp3"]))))],
          found |-> {2}]
    ELSE IF d["temp2_1"] # UndefV
    THEN [temps |-> [board1 |-> d["temp2_1"], board2 |-> d["temp2_2"],
                     board3 |-> d["temp2_3"],
                     chip |-> Num(MathMax(OrZero(d["temp2_1"]), OrZero(d["temp2_2"]),
                                          OrZero(d["temp2_3"])))],
          found |-> {3}]
    ELSE IF d["Temperature"] # UndefV
    THEN [temps |-> [NoTemps EXCEPT !.chip = d["Temperature"]], found |-> {4}]
    ELSE IF \E k \in Keys : d[k] # UndefV /\ StartsWithChain(k)
    THEN [temps |-> [board1 |-> IF d["chain_temp1"] # UndefV THEN d["chain_temp1"] ELSE NullV,
                     board2 |-> IF d["chain_temp2"] # UndefV THEN d["chain_temp2"] ELSE NullV,
                     board3 |-> IF d["chain_temp3"] # UndefV THEN d["chain_temp3"] ELSE NullV,
                     chip |-> NullV],
          found |-> {5}]
    ELSE [temps |-> NoTemps, found |-> {}]

\* The test of pattern 6, server.js:798.
TempField(d, key) ==
    /\ d[key].type = "number"
    /\ IncludesTemp(key)
    /\ d[key].v > 0
    /\ d[key].v < 150

\* The body of the loop of pattern 6, server.js:798-812, for one entry.
ScanEntry(d, key, r) ==
    IF ~TempField(d, key) THEN r
    ELSE LET t == r.temps
             u == IF IncludesChip(key) THEN [t EXCEPT !.chip = d[key]]
                  ELSE IF Includes(key, "1") /\ t.board1 = NullV
                  THEN [t EXCEPT !.board1 = d[key]]
                  ELSE IF Includes(key, "2") /\ t.board2 = NullV
                  THEN [t EXCEPT !.board2 = d[key]]
                  ELSE IF Includes(key, "3") /\ t.board3 = NullV
                  THEN [t EXCEPT !.board3 = d[key]]
                  ELSE t
         IN  [temps |-> u, found |-> r.found \cup {6}]

RECURSIVE ScanFrom(_, _, _)
ScanFrom(d, i, r) ==
    IF i > Len(KeyOrder) THEN r
    ELSE ScanFrom(d, i + 1, ScanEntry(d, KeyOrder[i], r))

\* A scan that is made whatever the chain above has found.
ScanAlways(d, r) == ScanFrom(d, 1, r)

\* Pattern 6, server.js:795-817: entered when the chip is still null.
Scan(d, r) == IF r.temps.chip = NullV THEN ScanFrom(d, 1, r) ELSE r

\* Pattern 7, server.js:819-834: the fields whose value lies in 20..100 are
\* logged; nothing is assigned.
ValueRangeCommits(d, r) ==
    IF r.temps.chip = NullV /\ \E k \in Keys : d[k].type = "number" /\ d[k].v >= 20 /\ d[k].v <= 100
    THEN [temps |-> [r.temps EXCEPT !.chip =
                        d[CHOOSE k \in Keys : d[k].type = "number" /\ d[k].v >= 20 /\ d[k].v <= 100]],
          found |-> r.found \cup {7}]
    ELSE r

ValueRange(d, r) == r

\* Lines 836-839: the chip defaults to the highest board temperature.
ChipFromBoards(r) ==
    IF r.temps.chip = NullV
       /\ (Truthy(r.temps.board1) \/ Truthy(r.temps.board2) \/ Truthy(r.temps.board3))
    THEN [r EXCEPT !.temps.chip = Num(MathMax(OrZero(r.temps.board1),
                                              OrZero(r.temps.board2),
                                              OrZero(r.temps.board3)))]
    ELSE r

\* The temperatures returned, and the patterns reported as found.
extractTemperatures(d) == ChipFromBoards(ValueRange(d, Scan(d, Cascade(d))))

EvalExtractTemperatures ==
    /\ args.fn = "extractTemperatures"
    /\ ret = NoRet
    /\ ret' = [fn |-> "extractTemperatures",
               temps |-> extractTemperatures(args.combinedData).temps,
               found |-> extractTemperatures(args.combinedData).found]
    /\ UNCHANGED args
    /\ UNCHANGED notEval

-----------------------------------------------------------------------------
(* extractFanSpeeds, server.js:846-913, on the merged answer combinedData.   *)

\* The fields of an answer, in the order of Object.entries.
FanKeyOrder ==
    <<"fan1", "fan2", "fan3", "fan_speed_in", "fan_speed_out", "Fan1", "Fan2",
      "Fan Speed In", "Fan Speed Out", "fan_rear_4", "pump_rpm", "speed_a">>

FanKeys == {FanKeyOrder[i] : i \in DOMAIN FanKeyOrder}

\* The fields that no fan name matches.
RangeOnlyKeys == {"pump_rpm", "speed_a"}

\* key.toLowerCase().includes('fan')
IncludesFan(key) == key \notin RangeOnlyKeys

\* key.includes('1') || key.toLowerCase().includes('in')
IncludesOneOrIn(key) == key \in {"fan1", "Fan1", "fan_speed_in", "Fan Speed In"}

\* key.includes('2') || key.toLowerCase().includes('out')
IncludesTwoOrOut(key) == key \in {"fan2", "Fan2", "fan_speed_out", "Fan Speed Out"}

\* key.toLowerCase().includes('rpm') || key.toLowerCase().includes('speed')
IncludesRpmOrSpeed(key) ==
    key \in {"pump_rpm", "speed_a", "fan_speed_in", "fan_speed_out",
             "Fan Speed In", "Fan Speed Out"}

\* The speed of a fan field and the speed of a field of another kind.
FanRpm == Num(4000)
OtherRpm == Num(3000)

FanInputs ==
    {[fn |-> "extractFanSpeeds", combinedData |-> d] :
        d \in {f \in [FanKeys -> {UndefV, FanRpm, OtherRpm}] :
                  \A k \in FanKeys :
                      f[k] \in {UndefV, IF k \in RangeOnlyKeys THEN OtherRpm ELSE FanRpm}}}

\* combinedData[key]
Field(d, key) == IF key \in DOMAIN d THEN d[key] ELSE UndefV

NoFans ==
    [fans |-> [speed1 |-> NullV, speed2 |-> NullV, speed3 |-> NullV, speed4 |-> NullV],
     potential |-> {}]

\* Lines 858-879: the four named patterns, the first whose first field is
\* present.
FanCascade(d) ==
    IF Field(d, "fan1") # UndefV
    THEN [NoFans EXCEPT !.fans = [speed1 |-> Field(d, "fan1"), speed2 |-> Field(d, "fan2"),
                                  speed3 |-> Field(d, "fan3"), speed4 |-> Field(d, "fan4")]]
    ELSE IF Field(d, "fan_speed_in") # UndefV
    THEN [NoFans EXCEPT !.fans.speed1 = Field(d, "fan_speed_in"),
                        !.fans.speed2 = Field(d, "fan_speed_out")]
    ELSE IF Field(d, "Fan1") # UndefV
    THEN [NoFans EXCEPT !.fans = [speed1 |-> Field(d, "Fan1"), speed2 |-> Field(d, "Fan2"),
                                  speed3 |-> Field(d, "Fan3"), speed4 |-> Field(d, "Fan4")]]
    ELSE IF Field(d, "Fan Speed In") # UndefV
    THEN [NoFans EXCEPT !.fans.speed1 = Field(d, "Fan Speed In"),
                        !.fans.speed2 = Field(d, "Fan Speed Out")]
    ELSE NoFans

\* Lines 884-894: one field of the scan for fan-named fields.
FanScanEntry(d, key, r) ==
    IF ~(d[key].type = "number" /\ IncludesFan(key) /\ d[key].v > 0) THEN r
    ELSE IF r.fans.speed1 = NullV /\ IncludesOneOrIn(key)
    THEN [r EXCEPT !.fans.speed1 = d[key]]
    ELSE IF r.fans.speed2 = NullV /\ IncludesTwoOrOut(key)
    THEN [r EXCEPT !.fans.speed2 = d[key]]
    ELSE IF r.fans.speed3 = NullV /\ key = "fan3"
    THEN [r EXCEPT !.fans.speed3 = d[key]]
    ELSE IF r.fans.speed4 = NullV /\ key = "fan_rear_4"
    THEN [r EXCEPT !.fans.speed4 = d[key]]
    ELSE r

RECURSIVE FanScanFrom(_, _, _)
FanScanFrom(d, i, r) ==
    IF i > Len(FanKeyOrder) THEN r
    ELSE FanScanFrom(d, i + 1, FanScanEntry(d, FanKeyOrder[i], r))

\* Lines 882-896: entered when speed1 is still null.
FanScan(d, r) == IF r.fans.speed1 = NullV THEN FanScanFrom(d, 1, r) ELSE r

\* The fields of line 902: a number in 500..10000 under an rpm or speed name.
PotentialFans(d) ==
    {k \in FanKeys : /\ d[k].type = "number"
                     /\ d[k].v >= 500 /\ d[k].v <= 10000
                     /\ IncludesRpmOrSpeed(k)}

\* A range pattern that takes its first candidate as speed1.
FanValueRangeCommits(d, r) ==
    IF r.fans.speed1 = NullV /\ PotentialFans(d) # {}
    THEN [fans |-> [r.fans EXCEPT !.speed1 = d[CHOOSE k \in PotentialFans(d) : TRUE]],
          potential |-> PotentialFans(d)]
    ELSE r

\* Lines 899-910: when speed1 is still null the candidates are logged; nothing
\* is assigned.
FanValueRange(d, r) ==
    IF r.fans.speed1 = NullV /\ PotentialFans(d) # {}
    THEN [r EXCEPT !.potential = PotentialFans(d)]
    ELSE r

\* The fan speeds returned, and the candidates logged.
extractFanSpeeds(d) == FanValueRange(d, FanScan(d, FanCascade(d)))

EvalExtractFanSpeeds ==
    /\ args.fn = "extractFanSpeeds"
    /\ ret = NoRet
    /\ ret' = [fn |-> "extractFanSpeeds",
               fans |-> extractFanSpeeds(args.combinedData).fans,
               potential |-> extractFanSpeeds(args.combinedData).potential]
    /\ UNCHANGED args
    /\ UNCHANGED notEval

-----------------------------------------------------------------------------
(* The power draw of the snapshot, getMinerStats, server.js:1030-1032 and   *)
(* 1221-1223.  The hashrate is kept in GH/s, as summaryData['GHS 5s'].      *)

\* a || b
OrElse(a, b) == IF Truthy(a) THEN a ELSE b

PowerInputs ==
    [fn : {"power"},
     statsPower : {UndefV, Num(0), Num(3100)},
     statspower : {UndefV, Num(3200)},
     power_limit : {UndefV, Num(3300)},
     summaryPower : {UndefV, Num(0), Num(3400)},
     ghs5s : {0, 10, 14, 15, 95000}]

\* Math.round(hashrate * 34) with hashrate = ghs5s / 1000.
Estimate(ghs5s) == Num((ghs5s * 34 + 500) \div 1000)

\* An estimate with nothing behind it.
EstimateOnly(ghs5s) == Estimate(ghs5s)

\* Math.round(hashrate * 34) || 3250
EstimateOrDefault(ghs5s) == OrElse(Estimate(ghs5s), Num(3250))

\* Lines 1221-1223.
power(a) ==
    OrElse(a.statsPower,
           OrElse(a.statspower,
                  OrElse(a.power_limit,
                         OrElse(a.summaryPower, EstimateOrDefault(a.ghs5s)))))

EvalPower ==
    /\ args.fn = "power"
    /\ ret = NoRet
    /\ ret' = [fn |-> "power", powerDraw |-> power(args)]
    /\ UNCHANGED args
    /\ UNCHANGED notEval

-----------------------------------------------------------------------------
(* The price per kWh of the snapshot, getMinerStats, server.js:1242-1246.  *)
(* A price is a whole number of 1/100000 NOK: 0.9375 NOK is 93750.         *)

\* num / den NOK as a price.
Price(num, den) == (num * 100000) \div den

\* priceMode as the settings and the documentation name it.
PriceModes == {"norgespris", "spotpris", "stromstotteavtale"}

\* config.json: the keys POST /api/config saves (server.js:1519-1527) and
\* the keys of the documented file (README.md:139-141).
Configs ==
    [priceMode : PriceModes,
     gridFeePerKwh : {UndefV, Num(0), Num(Price(30, 100)), Num(Price(50, 100))},
     gridFeeWeekdayDay : {UndefV, Num(Price(50, 100))},
     gridFeeWeekendNight : {UndefV, Num(Price(30, 100))}]

\* electricityPriceCache.currentPrice: null before the first fetch.
CurrentPrices == {NullV, Num(0), Num(Price(50, 100)), Num(Price(2, 1))}

\* The moment of the snapshot: Date.getDay() (0 is Sunday) and getHours().
PriceInputs ==
    [fn : {"effectivePrice"}, currentPrice : CurrentPrices, config : Configs,
     day : 0..6, hour : 0..23]

\* spotPrice = electricityPriceCache.currentPrice || 1.0,
\* gridFee = config.gridFeePerKwh || 0.50,
\* effectivePrice = useNorgespris ? spotPrice + gridFee : spotPrice,
\* and the electricity part of the snapshot (server.js:1276-1281).
EffectivePrice(currentPrice, config) ==
    LET spotPrice == Or(currentPrice, Num(Price(1, 1))).v
        gridFee == Or(config.gridFeePerKwh, Num(Price(50, 100))).v
        useNorgespris == config.priceMode = "norgespris"
    IN  [spotPrice |-> spotPrice,
         gridFee |-> gridFee,
         effectivePrice |-> IF useNorgespris THEN spotPrice + gridFee
                            ELSE spotPrice,
         priceMode |-> IF useNorgespris THEN "norgespris" ELSE "spotpris"]

EvalEffectivePrice ==
    /\ args.fn = "effectivePrice"
    /\ ret = NoRet
    /\ ret' = [fn |-> "effectivePrice",
               electricity |-> EffectivePrice(args.currentPrice, args.config)]
    /\ UNCHANGED args
    /\ UNCHANGED notEval

-----------------------------------------------------------------------------
(* calculateEfficiency, server.js:628-678.  A JavaScript number is kept as *)
(* an exact quotient in lowest terms, or as Infinity, -Infinity or NaN;    *)
(* the rounding of the floating-point operations is left out.              *)

RECURSIVE GCD(_, _)
GCD(a, b) == IF b = 0 THEN a ELSE GCD(b, a % b)

Abs(n) == IF n < 0 THEN 0 - n ELSE n

\* The number n / d, d # 0.
Number(n, d) ==
    LET g == GCD(Abs(n), Abs(d))
        s == IF d < 0 THEN 0 - 1 ELSE 1
    IN  [kind |-> "finite", num |-> s * (n \div g), den |-> s * (d \div g)]

Infinity == [kind |-> "Infinity", num |-> 1, den |-> 0]

NegInfinity == [kind |-> "-Infinity", num |-> 0 - 1, den |-> 0]

NotANumber == [kind |-> "NaN", num |-> 0, den |-> 0]

\* -1, 0 or 1; Infinity and -Infinity have the sign of num.
Sign(a) == IF a.num > 0 THEN 1 ELSE IF a.num < 0 THEN 0 - 1 ELSE 0

Signed(s) == IF s > 0 THEN Infinity ELSE NegInfinity

\* a * b
Times(a, b) ==
    IF a.kind = "NaN" \/ b.kind = "NaN" THEN NotANumber
    ELSE IF a.kind # "finite" \/ b.kind # "finite"
         THEN IF Sign(a) * Sign(b) = 0 THEN NotANumber ELSE Signed(Sign(a) * Sign(b))
    ELSE LET g1 == GCD(Abs(a.num), b.den)
             g2 == GCD(Abs(b.num), a.den)
         IN  Number((a.num \div g1) * (b.num \div g2),
                    (a.den \div g2) * (b.den \div g1))

\* a / b: a finite number over zero is Infinity, -Infinity or (0 / 0) NaN.
Over(a, b) ==
    IF a.kind = "NaN" \/ b.kind = "NaN" THEN NotANumber
    ELSE IF a.kind # "finite"
         THEN IF b.kind # "finite" THEN NotANumber
              ELSE Signed(Sign(a) * (IF Sign(b) < 0 THEN 0 - 1 ELSE 1))
    ELSE IF b.kind # "finite" THEN Number(0, 1)
    ELSE IF b.num = 0
         THEN IF a.num = 0 THEN NotANumber ELSE Signed(Sign(a))
    ELSE Times(a, Number(b.den, b.num))

\* a - b
Minus(a, b) ==
    IF a.kind = "NaN" \/ b.kind = "NaN" THEN NotANumber
    ELSE IF a.kind # "finite"
         THEN IF b.kind = a.kind THEN NotANumber ELSE a
    ELSE IF b.kind # "finite" THEN Signed(0 - Sign(b))
    ELSE Number(a.num * b.den - b.num * a.den, a.den * b.den)

\* a < b, false when either is NaN.
Less(a, b) ==
    /\ a.kind # "NaN"
    /\ b.kind # "NaN"
    /\ a # b
    /\ IF a.kind = "-Infinity" \/ b.kind = "Infinity" THEN TRUE
       ELSE IF a.kind = "Infinity" \/ b.kind = "-Infinity" THEN FALSE
       ELSE a.num * b.den < b.num * a.den

\* Math.min(a, b): NaN when either is NaN.
MathMin(a, b) ==
    IF a.kind = "NaN" \/ b.kind = "NaN" THEN NotANumber
    ELSE IF Less(a, b) THEN a ELSE b

\* x || fallback for a cache field that is null, undefined or a number.
OrNumber(x, fallback) ==
    IF x.type = "number" /\ x.v.num # 0 THEN x.v ELSE fallback

\* networkStatsCache before the first fetch (server.js:60-66) and as
\* fetchNetworkStats fills it (603-612), the hashrate in EH/s.
NetworkStatsCaches ==
    {[hashrate |-> [type |-> "null", v |-> Number(0, 1)],
      blockReward |-> [type |-> "number", v |-> Number(3125, 1000)],
      blocksPerDay |-> [type |-> "undefined", v |-> Number(0, 1)]]}
    \cup
    [hashrate : {[type |-> "number", v |-> Number(6, 10)],
                 [type |-> "number", v |-> Number(600, 1)]},
     blockReward : {[type |-> "number", v |-> Number(3125, 1000)]},
     blocksPerDay : {[type |-> "number", v |-> Number(144, 1)]}]

\* The arguments getMinerStats passes (server.js:1219-1249): a hashrate in
\* TH/s, a power in W that is never 0, a price per kWh and an asset price.
EfficiencyInputs ==
    [fn : {"calculateEfficiency"},
     hashrateTHs : {Number(0, 1), Number(100, 1)},
     powerWatts : {Number(2000, 1), Number(3250, 1)},
     electricityPricePerKWh : {Number(0, 1), Number(1, 2), Number(3, 2)},
     btcPrice : {Number(600000, 1), Number(1000000, 1)},
     currency : {"NOK", "EUR"},
     networkStatsCache : NetworkStatsCaches]

\* A conversion that takes 1 EH/s for 1000 TH/s.
HashrateEHsByThousand(hashrateTHs) == Over(hashrateTHs, Number(1000, 1))

\* hashrateEHs = hashrateTHs / 1000000
HashrateEHs(hashrateTHs) == Over(hashrateTHs, Number(1000000, 1))

\* A result that reports the ratio as computed.
UpperBoundAbsent(effectiveSCOP) == effectiveSCOP

\* effectiveSCOP: Math.min(effectiveSCOP, 10) (server.js:671)
UpperBound(effectiveSCOP) == MathMin(effectiveSCOP, Number(10, 1))

calculateEfficiency(hashrateTHs, powerWatts, electricityPricePerKWh, btcPrice, currency, cache) ==
    LET networkHashrateEHs == OrNumber(cache.hashrate, Number(700, 1))
        blockReward == OrNumber(cache.blockReward, Number(3125, 1000))
        blocksPerDay == OrNumber(cache.blocksPerDay, Number(144, 1))
        hashrateEHs == HashrateEHs(hashrateTHs)
        dailyBTCEstimate ==
            Times(Times(Over(hashrateEHs, networkHashrateEHs), blockReward),
                  blocksPerDay)
        powerKW == Over(powerWatts, Number(1000, 1))
        dailyKWh == Times(powerKW, Number(24, 1))
        dailyElectricityCost == Times(dailyKWh, electricityPricePerKWh)
        dailyEarnings == Times(dailyBTCEstimate, btcPrice)
        dailyProfit == Minus(dailyEarnings, dailyElectricityCost)
        effectiveMultiplier == Over(dailyEarnings, dailyElectricityCost)
        effectiveSCOP ==
            Over(Number(1, 1),
                 Minus(Number(1, 1),
                       MathMin(effectiveMultiplier, Number(99, 100))))
    IN  [powerKW |-> powerKW,
         dailyKWh |-> dailyKWh,
         dailyBTCEstimate |-> dailyBTCEstimate,
         dailyEarnings |-> dailyEarnings,
         dailyElectricityCost |-> dailyElectricityCost,
         dailyProfit |-> dailyProfit,
         isProfitable |-> Less(Number(0, 1), dailyProfit),
         networkHashrate |-> networkHashrateEHs,
         effectiveSCOP |-> UpperBound(effectiveSCOP),
         breakevenBTCPrice |-> Over(dailyElectricityCost, dailyBTCEstimate),
         currentBTCPrice |-> btcPrice,
         currency |-> currency]

EvalCalculateEfficiency ==
    /\ args.fn = "calculateEfficiency"
    /\ ret = NoRet
    /\ ret' = [fn |-> "calculateEfficiency",
               efficiency |->
                   calculateEfficiency(args.hashrateTHs, args.powerWatts,
                                       args.electricityPricePerKWh,
                                       args.btcPrice, args.currency,
                                       args.networkStatsCache)]
    /\ UNCHANGED args
    /\ UNCHANGED notEval

-----------------------------------------------------------------------------
(* The same computation in binary floating point.  A JavaScript number is   *)
(* a binary64 value: every operation returns the representable value        *)
(* nearest to the exact result, ties to the even significand.  Here a       *)
(* number is s * m * 2^e with a significand m of Precision bits (53 in      *)
(* binary64); the exponent is not bounded.                                  *)

Precision == 14    \* bits of the significand

BinZero == [s |-> 0, m |-> 0, e |-> 0]

\* The number of bits of n > 0.
RECURSIVE BitLength(_)
BitLength(n) == IF n = 0 THEN 0 ELSE 1 + BitLength(n \div 2)

\* s * n * 2^e rounded to the nearest number, ties to even.
Nearest(s, n, e) ==
    IF n = 0 THEN BinZero
    ELSE LET b == BitLength(n)
         IN  IF b <= Precision
             THEN [s |-> s, m |-> n * 2^(Precision - b), e |-> e - (Precision - b)]
             ELSE LET k == b - Precision
                      q == n \div 2^k
                      r == n % 2^k
                      half == 2^(k - 1)
                      up == r > half \/ (r = half /\ q % 2 = 1)
                      q1 == IF up THEN q + 1 ELSE q
                  IN  IF q1 = 2^Precision
                      THEN [s |-> s, m |-> 2^(Precision - 1), e |-> e + k + 1]
                      ELSE [s |-> s, m |-> q1, e |-> e + k]

\* The number of the integer literal n >= 0.
Bin(n) == Nearest(1, n, 0)

\* x * y
BinTimes(x, y) ==
    IF x.s = 0 \/ y.s = 0 THEN BinZero
    ELSE Nearest(x.s * y.s, x.m * y.m, x.e + y.e)

\* The quotient and the remainder of r * 2^i by d, bit by bit.
RECURSIVE LongDivision(_, _, _, _)
LongDivision(r, d, q, i) ==
    IF i = 0 THEN <<q, r>>
    ELSE IF 2 * r >= d THEN LongDivision(2 * r - d, d, 2 * q + 1, i - 1)
         ELSE LongDivision(2 * r, d, 2 * q, i - 1)

\* x / y for y # 0: the quotient to Precision + 2 bits and one more bit that
\* tells whether anything is left.
BinOver(x, y) ==
    IF x.s = 0 THEN BinZero
    ELSE LET qr == LongDivision(x.m % y.m, y.m, x.m \div y.m, Precision + 2)
             n == 2 * qr[1] + (IF qr[2] # 0 THEN 1 ELSE 0)
         IN  Nearest(x.s * y.s, n, x.e - y.e - (Precision + 2) - 1)

BinNegated(x) == [x EXCEPT !.s = 0 - x.s]

\* x - y.  An operand more than Precision + 1 binary places below the other
\* does not change it.
BinMinus(x, y) ==
    IF y.s = 0 THEN x
    ELSE IF x.s = 0 THEN BinNegated(y)
    ELSE IF x.e - y.e > Precision + 1 THEN x
    ELSE IF y.e - x.e > Precision + 1 THEN BinNegated(y)
    ELSE LET low == IF x.e < y.e THEN x.e ELSE y.e
             n == x.s * x.m * 2^(x.e - low) - y.s * y.m * 2^(y.e - low)
         IN  Nearest(IF n < 0 THEN 0 - 1 ELSE 1, IF n < 0 THEN 0 - n ELSE n, low)

\* x < y
BinLess(x, y) == BinMinus(y, x).s = 1

\* The number that follows x > 0; there is none here for 0, the exponent
\* being unbounded.
BinNext(x) == IF x.s = 0 THEN x ELSE Nearest(x.s, x.m + 1, x.e)

\* The inputs: a hashrate in TH/s, a power in W, a price per kWh as a ratio
\* of integers, the asset price, and the network hashrate in EH/s of the
\* cache (700 before the first fetch, server.js:629).
BinaryInputs ==
    [fn : {"breakeven"},
     hashrateTHs : {Bin(95), Bin(100), Bin(110)},
     powerWatts : {Bin(2000), Bin(3250), Bin(3500)},
     electricityPricePerKWh : {BinZero, BinOver(Bin(1), Bin(2)), BinOver(Bin(3), Bin(2)),
                               BinOver(Bin(9375), Bin(10000))},
     btcPrice : {Bin(1000000)},
     networkHashrateEHs : {Bin(700), Bin(600), BinOver(Bin(6), Bin(10))}]

\* A breakeven price that is the cost itself.
BreakevenUndivided(dailyElectricityCost, dailyBTCEstimate) == dailyElectricityCost

\* breakevenBTCPrice: dailyElectricityCost / dailyBTCEstimate (server.js:672)
Breakeven(dailyElectricityCost, dailyBTCEstimate) == BinOver(dailyElectricityCost, dailyBTCEstimate)

\* Lines 630-674 for a cache that holds blockReward and blocksPerDay: the
\* fields that lead to the profit and to the breakeven price.
calculateEfficiencyBinary(hashrateTHs, powerWatts, electricityPricePerKWh, btcPrice, networkHashrateEHs) ==
    LET blockReward == BinOver(Bin(3125), Bin(1000))
        blocksPerDay == Bin(144)
        hashrateEHs == BinOver(hashrateTHs, Bin(1000000))
        dailyBTCEstimate ==
            BinTimes(BinTimes(BinOver(hashrateEHs, networkHashrateEHs), blockReward),
                     blocksPerDay)
        powerKW == BinOver(powerWatts, Bin(1000))
        dailyKWh == BinTimes(powerKW, Bin(24))
        dailyElectricityCost == BinTimes(dailyKWh, electricityPricePerKWh)
        dailyEarnings == BinTimes(dailyBTCEstimate, btcPrice)
        dailyProfit == BinMinus(dailyEarnings, dailyElectricityCost)
    IN  [dailyBTCEstimate |-> dailyBTCEstimate,
         dailyEarnings |-> dailyEarnings,
         dailyElectricityCost |-> dailyElectricityCost,
         dailyProfit |-> dailyProfit,
         isProfitable |-> BinLess(BinZero, dailyProfit),
         breakevenBTCPrice |-> Breakeven(dailyElectricityCost, dailyBTCEstimate),
         currentBTCPrice |-> btcPrice]

\* calculateEfficiency with the asset price replaced.
AtPrice(a, btcPrice) ==
    calculateEfficiencyBinary(a.hashrateTHs, a.powerWatts, a.electricityPricePerKWh,
                              btcPrice, a.networkHashrateEHs)

\* A price above x by 8 units in the last place of 1.
Margin(x) == BinTimes(x, Nearest(1, 2^(Precision - 1) + 4, 1 - Precision))

\* The engine evaluated at the market price, then at the breakeven price it
\* reported, at the next price above it and at a price a margin above it.
EvalAtBreakeven ==
    /\ args.fn = "breakeven"
    /\ ret = NoRet
    /\ LET atMarket == AtPrice(args, args.btcPrice)
           breakeven == atMarket.breakevenBTCPrice
       IN  ret' = [fn |-> "breakeven",
                   efficiency |-> atMarket,
                   atBreakeven |-> AtPrice(args, breakeven),
                   atNext |-> AtPrice(args, BinNext(breakeven)),
                   atMargin |-> AtPrice(args, Margin(breakeven))]
    /\ UNCHANGED args
    /\ UNCHANGED notEval

Inputs ==
    ReadingsInputs \cup RejectRateInputs \cup ExtractInputs \cup PriceInputs
        \cup EfficiencyInputs \cup MixedInputs \cup ZeroInputs \cup FanInputs \cup PowerInputs \cup BinaryInputs

EvalStart ==
    /\ NothingElse
    /\ args \in Inputs
    /\ ret = NoRet

EvalNext ==
    \/ EvalReadings
    \/ EvalRejectRate
    \/ EvalExtractTemperatures
    \/ EvalEffectivePrice
    \/ EvalCalculateEfficiency
    \/ EvalExtractFanSpeeds
    \/ EvalPower
    \/ EvalAtBreakeven

\* One evaluation of a synchronous computation on one input.
SpecEval == EvalStart /\ [][EvalNext]_vars

\* The server listening, none of its start-up fetches having succeeded.
WsStart ==
    /\ phase = "running"
    /\ electricityPriceCache = InitElectricityPriceCache
    /\ btcPriceCache = InitBtcPriceCache
    /\ networkStatsCache = InitNetworkStatsCache
    /\ inflight = NoneInflight
    /\ initialDone = {}
    /\ obs = NoObs
    /\ SendInit /\ StatsInit /\ GqlInit /\ EvalInit /\ WsInit /\ PowerInit
    /\ HistoryInit /\ SwInit /\ ConfigInit

\* One WebSocket connection of the running server.
SpecWs == WsStart /\ [][WsNext]_vars

\* The same connection with its awaits settling and its timer firing.
SpecWsFair == WsStart /\ [][ConnectionNext]_vars /\ ConnectionFairness

\* A call of setPowerProfile with a profile of the set.
PowerStart ==
    /\ MarketInit /\ SendInit /\ StatsInit /\ GqlInit /\ EvalInit /\ WsInit
    /\ HistoryInit /\ SwInit /\ ConfigInit
    /\ powerProfile \in DOMAIN profiles
    /\ powerPc = "idle"
    /\ powerResult = NoPowerResult

SpecPower == PowerStart /\ [][PowerNext]_vars

\* The calls of saveHistoryEntry of the running server.
SpecHistory == Init /\ [][HistoryNext]_vars

\* The service worker answering API requests.
SpecSw == Init /\ [][SwNext]_vars

\* The server listening, the prices of the configured zone fetched.
ConfigStart ==
    /\ phase = "running"
    /\ electricityPriceCache = FetchedCache("NO5")
    /\ btcPriceCache = InitBtcPriceCache
    /\ networkStatsCache = InitNetworkStatsCache
    /\ inflight = NoneInflight
    /\ initialDone = {}
    /\ obs = NoObs
    /\ SendInit /\ StatsInit /\ GqlInit /\ EvalInit /\ WsInit /\ PowerInit
    /\ HistoryInit /\ SwInit
    /\ configFile \in {DefaultConfig, ConfigWithMiner}
    /\ RoutesInit

\* The requests that read or write the configuration, and the refresh.
SpecConfig == ConfigStart /\ [][ConfigNext]_vars

\* The same with every price request answered.
SpecConfigFetched == ConfigStart /\ [][ConfigNextFetched]_vars

\* Changes of the settings only, every await settling, the refresh timer
\* firing every 30 minutes and the price API answering again and again.
SpecConfigFair ==
    ConfigStart /\ [][SettingsNext]_vars /\ SettingsFairness

-----------------------------------------------------------------------------
(* Claims about the market-data caches, checked under Spec.                *)

ValueMissing == {Null, Undef, Empty}

Populated(fetcher, cache) ==
    CASE fetcher = "fetchElectricityPrices" ->
            \A f \in {"prices", "currentPrice", "avgPrice", "minPrice", "maxPrice"} :
                cache[f] \notin ValueMissing
      [] fetcher = "fetchBTCPrice" ->
            \A f \in {"priceUSD", "priceNOK", "priceEUR", "priceSEK"} :
                cache[f] \notin ValueMissing
      [] fetcher = "fetchNetworkStats" ->
            \A f \in {"difficulty", "hashrate", "blockHeight"} :
                cache[f] \notin ValueMissing

\* This step ends with the return of an invocation that did not update:
\* it logged a failure, or found nothing usable in the payload.
FailingReturn ==
    /\ obs'.type = "return"
    /\ obs'.path \in {"failed", "unchanged"}

\* C1: once a cache holds the values of a successful fetch, no failing fetch
\* makes any of its value fields null, undefined or empty again.
C1_FailureKeepsValues ==
    [][FailingReturn =>
         /\ Populated("fetchElectricityPrices", electricityPriceCache)
               => Populated("fetchElectricityPrices", electricityPriceCache')
         /\ Populated("fetchBTCPrice", btcPriceCache)
               => Populated("fetchBTCPrice", btcPriceCache')
         /\ Populated("fetchNetworkStats", networkStatsCache)
               => Populated("fetchNetworkStats", networkStatsCache')]_vars

\* C2: an invocation that takes the failure path (its catch clause logs
\* "Failed to fetch ...") leaves the three caches exactly as they were.
C2_FailureLeavesCache ==
    [][(obs'.type = "return" /\ obs'.path = "failed") =>
         UNCHANGED <<electricityPriceCache, btcPriceCache, networkStatsCache>>]_vars

\* C3: every invocation of a fetcher returns to its caller without raising,
\* and what it returns is the cache as it then stands.
C3_FetcherNeverRaises ==
    obs.type = "return" => (~obs.raised /\ obs.retCurrent)

\* A TypeError raised inside fetchBTCPrice after "usd"-only data was caught.
C3_Witness ==
    /\ obs.type = "return"
    /\ obs.who = "fetchBTCPrice"
    /\ obs.path = "failed"
    /\ btcPriceCache.priceUSD \in Versions
    /\ btcPriceCache.priceNOK = Undef

\* C4: whatever a reader copies out of one cache stems from one single
\* fetch (or is the initial value): no reader sees fields of two fetches.
C4_ReadersSeeWholeValues ==
    obs.type = "snapshot" =>
        /\ Cardinality(obs.src.electricity) <= 1
        /\ Cardinality(obs.src.btcPrice) <= 1
        /\ Cardinality(obs.src.network) <= 1

\* A snapshot built between the completions of several fetches, one of them
\* still pending.
C4_Witness ==
    /\ obs.type = "snapshot"
    /\ obs.who = "getMinerStats"
    /\ obs.src = [electricity |-> {"v1"}, btcPrice |-> {"v2"}, network |-> {"initial"}]
    /\ btcPriceCache.priceNOK = Undef
    /\ inflight.net > 0

AllCachesFetched ==
    /\ electricityPriceCache.fetchedAt # Null
    /\ btcPriceCache.fetchedAt # Null
    /\ networkStatsCache.fetchedAt # Null

\* C5 as claimed: timers, requests and polls are served only with all three
\* caches populated.
C5_PopulatedBeforeServing ==
    phase = "running" => AllCachesFetched

\* C5 as amended: timers, requests and polls are served only after each of
\* the three start-up invocations has returned, with or without data.
C5_SettledBeforeServing ==
    phase = "running" => initialDone = Fetchers

\* A client is served a message while a cache is still unpopulated.
C5_Witness ==
    /\ phase = "running"
    /\ obs.type = "snapshot"
    /\ btcPriceCache.fetchedAt = Null
    /\ electricityPriceCache.fetchedAt # Null

-----------------------------------------------------------------------------
(* Claims about sendCGMinerCommand, checked under SpecSend, SpecSendFair   *)
(* and SpecReply.                                                          *)

\* C6: every call eventually settles, whatever the device does after it
\* has accepted the connection.
C6_CallSettles ==
    (outcome = "pending") ~> (outcome \notin {"none", "pending"})

Errors == {"ConnectionError", "TimeoutError", "ProtocolError"}

\* C7: the call opens one connection, and its outcome is the one fixed by
\* the first terminating event: the parsed reply or a protocol error for
\* 'end', a connection error for 'error', a timeout error with the socket
\* destroyed for 'timeout'; nothing that happens later changes it.
C7_OneOutcome ==
    /\ sock # "none" => connects = 1
    /\ first = "none" <=> outcome \in {"none", "pending"}
    /\ first = "error" => outcome = "ConnectionError"
    /\ first = "timeout" => (outcome = "TimeoutError" /\ sock = "destroyed")
    /\ (first = "end" /\ ~overflow) =>
          /\ [outcome |-> outcome, result |-> result] = OnEnd(data)
          /\ outcome \in {"resolved", "ProtocolError"}
    /\ outcome \in Errors => result = NoValue

\* The reply was parsed and resolved when the device closed, and the
\* connection broke afterwards.
C7_Witness ==
    /\ first = "end"
    /\ outcome = "resolved"
    /\ sock = "failed"
    /\ connects = 1
    /\ written
    /\ wire = <<"1", "00">>

\* The terminator of a reply: its trailing null characters.
RECURSIVE StripTerminator(_)
StripTerminator(text) ==
    IF text # <<>> /\ text[Len(text)] = "00"
    THEN StripTerminator(SubSeq(text, 1, Len(text) - 1))
    ELSE text

\* A reply is well formed when it is valid UTF-8 and is a JSON text
\* followed by at least one null byte.
WellFormedReply(bytes) ==
    LET text == ChunkToString(bytes)
    IN  /\ \A i \in 1..Len(text) : text[i] # "FFFD"
        /\ StripTerminator(text) # text
        /\ JSONParse(StripTerminator(text)).ok

\* C8: when the device has sent a well-formed reply with its null
\* terminator and closed, the call resolves with the value that parsing
\* the reply without the terminator gives.
C8_ReplyParsedAsSent ==
    (first = "end" /\ WellFormedReply(wire)) =>
        /\ outcome = "resolved"
        /\ result = JSONParse(StripTerminator(ChunkToString(wire))).val

-----------------------------------------------------------------------------
(* Claims about getMinerStats, checked under SpecStats.                    *)

\* C9: the call fails exactly when one of summary, stats and pools failed;
\* whatever GraphQL discovery and devs did or answered, it returns a snapshot.
C9_FailsIffCoreFails ==
    pc = "done" =>
        (statsResult = "failed" <=> \E c \in CoreCommands : req[c] = "rejected")

-----------------------------------------------------------------------------
(* Claims about the GraphQL client, checked under SpecGql.                 *)

\* The device did not answer the request with a successful HTTP response
\* carrying JSON: the connection failed, the request timed out, the status
\* is an error status, or the body does not parse.
RequestFailed(response) ==
    \/ response.transport \in {"error", "timeout"}
    \/ response.transport = "response" /\ response.status # "200"
    \/ response.transport = "response" /\ response.body = "text"

\* C11: a GraphQL request never raises, and resolves to null after a
\* network error, a timeout, an HTTP error or an unparseable body.
C11_RequestErrorsGiveNull ==
    gqlLast.response # NoResponse =>
        /\ ~gqlLast.raised
        /\ RequestFailed(gqlLast.response) => gqlLast.value = Null

RECURSIVE IndexOf(_, _)
IndexOf(seq, x) ==
    IF seq = <<>> THEN 0
    ELSE IF seq[Len(seq)] = x THEN Len(seq)
    ELSE IndexOf(SubSeq(seq, 1, Len(seq) - 1), x)

\* C12: the candidate queries are sent in their ranked order; the result
\* returned is that of the first query that gave data without errors, no
\* query is sent after it, and when none did so all have been sent and
\* the result carries no data.
C12_FirstSucceedingQuery ==
    /\ Len(gqlSent) <= Len(queries)
    /\ \A i \in 1..Len(gqlSent) : gqlSent[i].query = queries[i]
    /\ \A i \in 1..(Len(gqlSent) - 1) : gqlSent[i].value # "data"
    /\ gqlPhase = "returned" =>
          IF \E i \in 1..Len(gqlSent) : gqlSent[i].value = "data"
          THEN /\ gqlSent[Len(gqlSent)].value = "data"
               /\ gqlResult = [data |-> "data", query |-> queries[Len(gqlSent)]]
          ELSE /\ Len(gqlSent) = Len(queries)
               /\ gqlResult = NoData
    /\ gqlPhase # "returned" => gqlResult = NoResult

\* The third query succeeded after the first answered with data and errors
\* and the second failed at the connection.
C12_Witness ==
    /\ gqlPhase = "returned"
    /\ Len(gqlSent) = 3
    /\ gqlSent[1].value = "dataAndErrors"
    /\ gqlSent[2].value = Null
    /\ gqlResult.query = "hashrate"

-----------------------------------------------------------------------------
(* Claims about the snapshot's computations, checked under SpecEval.       *)

\* C13: the readings that GraphQL gave are the ones reported, temperature
\* and fan alike, and the heuristic on the protocol answers is used only
\* when the chip temperature is unresolved.
C13_GraphQLTakesPrecedence ==
    ret.fn = "readings" =>
        /\ args.graphql.speed1 # Null => ret.value.fans.speed1 = args.graphql.speed1
        /\ args.graphql.chip = "gql" => ret.value.temps.chip = "gql"
        /\ args.graphql.board1 # Null => ret.value.temps.board1 = "gql"
        /\ ret.fallback =>
              FromHTTPApi(args.httpApi, FromGraphQL(args.graphql)).temps.chip
                  \in {Null, "gql0"}

\* C14: the reject rate, a percentage, is 0 when no share was accepted or
\* rejected, and rejected / (accepted + rejected) otherwise.
C14_RejectRate ==
    ret.fn = "rejectRate" =>
        IF args.Accepted = 0 /\ args.Rejected = 0
        THEN ret.rejectRate.num = 0
        ELSE ret.rejectRate.num * (args.Accepted + args.Rejected)
                = args.Rejected * 100 * ret.rejectRate.den

MaxOf(d, k1, k2, k3) == Num(MathMax(OrZero(d[k1]), OrZero(d[k2]), OrZero(d[k3])))

-----------------------------------------------------------------------------
(* Claims about the price per kWh of the snapshot, checked under SpecEval. *)

\* The fixed base price of Norgespris, 0.50 NOK/kWh (README.md:20,
\* PROJECT_CONTEXT.md:550).
FixedBasePrice == Price(50, 100)

\* The threshold of the state subsidy, 93.75 ore/kWh
\* (PROJECT_CONTEXT.md:556).
SubsidyThreshold == Price(9375, 10000)

\* Monday to Friday, 06:00-22:00 (PROJECT_CONTEXT.md:560).
WeekdayDaytime(day, hour) == day \in 1..5 /\ hour \in 6..21

\* The documented rates, 0.50 and 0.30 kr/kWh unless the settings give
\* others (PROJECT_CONTEXT.md:560-562).
DaytimeRate(config) == Or(config.gridFeeWeekdayDay, Num(Price(50, 100))).v

OffPeakRate(config) == Or(config.gridFeeWeekendNight, Num(Price(30, 100))).v

\* C16: under norgespris the price per kWh of the cost is the fixed base
\* price plus the grid fee, at every hour of every day.
C16_NorgesprisIsFixedBasePlusFee ==
    (ret.fn = "effectivePrice" /\ args.config.priceMode = "norgespris") =>
        ret.electricity.effectivePrice
            = FixedBasePrice + ret.electricity.gridFee

\* C17: under the subsidised spot price the price per kWh is spot + grid fee
\* up to the threshold and spot - (spot - threshold) * fraction + grid fee
\* above it, the fraction being 90 %; a spot price of 2.00 with a grid fee
\* of 0.50 gives 1.544.
C17_SubsidisedSpot ==
    (ret.fn = "effectivePrice" /\ args.config.priceMode = "stromstotteavtale") =>
        LET spot == ret.electricity.spotPrice
            fee == ret.electricity.gridFee
            effective == ret.electricity.effectivePrice
        IN  /\ spot <= SubsidyThreshold => effective = spot + fee
            /\ spot > SubsidyThreshold =>
                  effective * 100
                      = spot * 100 - (spot - SubsidyThreshold) * 90
                          + fee * 100
            /\ (spot = Price(2, 1) /\ fee = Price(50, 100)) =>
                  (effective + 50) \div 100 = 1544

\* C18: the grid fee of a snapshot is the daytime rate from Monday to Friday
\* within the daytime hours and the off-peak rate at every other hour of the
\* week.
C18_GridFeeByTimeOfDay ==
    ret.fn = "effectivePrice" =>
        ret.electricity.gridFee
            = IF WeekdayDaytime(args.day, args.hour)
              THEN DaytimeRate(args.config)
              ELSE OffPeakRate(args.config)

-----------------------------------------------------------------------------
(* Claims about calculateEfficiency, checked under SpecEval.               *)

\* The network hashrate of the evaluation in TH/s: 1 EH/s is 1000000 TH/s.
NetworkTHs == Times(ret.efficiency.networkHashrate, Number(1000000, 1))

\* The device of the example: 100 TH/s at 3250 W, a reward of 3.125 with
\* 144 blocks a day, and an asset price of 1000000.
ExampleDevice ==
    /\ ret.fn = "calculateEfficiency"
    /\ args.hashrateTHs = Number(100, 1)
    /\ args.powerWatts = Number(3250, 1)
    /\ args.btcPrice = Number(1000000, 1)
    /\ args.networkStatsCache.hashrate.type = "number"

\* Daily yield = (device hashrate / network hashrate) * reward * blocks a
\* day with both hashrates in TH/s, and daily cost = kW * 24 * price.
YieldAndCost ==
    ret.fn = "calculateEfficiency" =>
        /\ Times(ret.efficiency.dailyBTCEstimate, NetworkTHs)
              = Times(args.hashrateTHs, Times(Number(3125, 1000), Number(144, 1)))
        /\ ret.efficiency.dailyEarnings
              = Times(ret.efficiency.dailyBTCEstimate, args.btcPrice)
        /\ ret.efficiency.dailyElectricityCost
              = Times(Times(Over(args.powerWatts, Number(1000, 1)), Number(24, 1)),
                      args.electricityPricePerKWh)

\* C19 as claimed: the daily yield is that share of the blocks, and for the
\* example device with a network hashrate of 600000 TH/s, which the claim
\* takes to be 600 EH/s, the yield is 0.075, the earnings are 75000 and the
\* cost is 3.25 * 24 * price.
C19_YieldOfExample ==
    /\ YieldAndCost
    /\ ExampleDevice =>
          /\ ret.efficiency.dailyBTCEstimate = Number(75, 1000)
          /\ ret.efficiency.dailyEarnings = Number(75000, 1)
          /\ ret.efficiency.dailyElectricityCost
                = Times(Number(78, 1), args.electricityPricePerKWh)

\* C19, amended: the same, the yield of 0.075 and the earnings of 75000
\* being those of a network hashrate of 600000 TH/s, which is 0.6 EH/s; at
\* 600 EH/s the yield is 0.000075 and the earnings are 75.
C19_YieldByNetworkHashrate ==
    /\ YieldAndCost
    /\ ExampleDevice =>
          /\ ret.efficiency.dailyElectricityCost
                = Times(Number(78, 1), args.electricityPricePerKWh)
          /\ NetworkTHs = Number(600000, 1) =>
                /\ args.networkStatsCache.hashrate.v = Number(6, 10)
                /\ ret.efficiency.dailyBTCEstimate = Number(75, 1000)
                /\ ret.efficiency.dailyEarnings = Number(75000, 1)
          /\ args.networkStatsCache.hashrate.v = Number(600, 1) =>
                /\ ret.efficiency.dailyBTCEstimate = Number(75, 1000000)
                /\ ret.efficiency.dailyEarnings = Number(75, 1)

\* The example device evaluated against a network of 600000 TH/s.
C19_Witness ==
    /\ ExampleDevice
    /\ args.networkStatsCache.hashrate.v = Number(6, 10)
    /\ args.electricityPricePerKWh = Number(3, 2)
    /\ ret.efficiency.dailyBTCEstimate = Number(75, 1000)
    /\ ret.efficiency.dailyEarnings = Number(75000, 1)
    /\ ret.efficiency.dailyElectricityCost = Number(117, 1)

\* C21: whatever the input, a cost of zero and earnings far above the cost
\* included, the reported effectiveSCOP does not exceed 10.
C21_RatioWithinUpperBound ==
    ret.fn = "calculateEfficiency" =>
        ~Less(Number(10, 1), ret.efficiency.effectiveSCOP)

\* Earnings at no cost at all, reported with a ratio of exactly 10.
C21_Witness ==
    /\ ret.fn = "calculateEfficiency"
    /\ ret.efficiency.dailyElectricityCost = Number(0, 1)
    /\ Less(Number(0, 1), ret.efficiency.dailyEarnings)
    /\ ret.efficiency.effectiveSCOP = Number(10, 1)

-----------------------------------------------------------------------------
(* Claims about the polls of a WebSocket connection, checked under SpecWs.  *)

\* C22: when getMinerStats fails in a poll of an open connection, the message
\* sent for that poll carries the error and the electricity-price, exchange-
\* rate and network caches as they are at that moment; nothing is left
\* unhandled and the poll timer stays set (it is set when the poll was the
\* first), so that later polls run.
C22_FailedPollIsReported ==
    [][(lastSettle' # lastSettle /\ lastSettle'.outcome = "throws"
            /\ readyState = "OPEN") =>
          /\ sent' = Append(sent,
                 [poll |-> lastSettle'.poll, kind |-> "error",
                  error |-> "getMinerStats",
                  caches |-> <<electricityPriceCache', btcPriceCache',
                               networkStatsCache'>>])
          /\ ~unhandled'
          /\ interval' = IF lastSettle'.poll = 1 THEN "set" ELSE interval]_vars

\* A failed poll, reported with a cache that has been fetched, and a later
\* poll whose snapshot was sent after it.
C22_Witness ==
    \E i, j \in 1..Len(sent) :
        /\ i < j
        /\ sent[i].kind = "error"
        /\ sent[i].error = "getMinerStats"
        /\ sent[i].caches[2] # InitBtcPriceCache
        /\ sent[j].kind = "stats"
        /\ sent[j].poll > sent[i].poll

-----------------------------------------------------------------------------
(* Claims about setPowerProfile, checked under SpecPower.                   *)

\* C23: setPowerProfile does not throw; whatever the profile of the set and
\* however the device command ends (a reply, a connection error, a timeout,
\* a reply that does not parse), it returns a result with success, the
\* profile and the profile's watts, and with the note that the response is
\* uncertain exactly when the command failed.
C23_PowerProfileNeverThrows ==
    /\ powerPc # "threw"
    /\ powerPc = "returned" =>
          /\ powerResult.success
          /\ powerResult.profile = powerProfile
          /\ powerResult.power
                = (IF powerProfile = "low" THEN 2000
                   ELSE IF powerProfile = "medium" THEN 3250 ELSE 3500)
          /\ (powerResult.note # "-") <=> (outcome # "resolved")
    /\ (powerPc = "awaiting" /\ outcome \notin {"none", "pending"}) =>
          ENABLED PowerSettles

\* The device never answered and the call returned all the same.
C23_Witness ==
    /\ powerPc = "returned"
    /\ powerProfile = "high"
    /\ outcome = "TimeoutError"
    /\ powerResult.power = 3500
    /\ powerResult.note = "Command sent but response uncertain"

-----------------------------------------------------------------------------
(* Claims about extractTemperatures on answers of several families,         *)
(* checked under SpecEval.                                                  *)

\* The test that selects family f in the chain of patterns 1 to 5.
Matches(f, d) ==
    CASE f = 1 -> d["temp_chip_1"] # UndefV
      [] f = 2 -> d["temp1"] # UndefV
      [] f = 3 -> d["temp2_1"] # UndefV
      [] f = 4 -> d["Temperature"] # UndefV
      [] f = 5 -> \E k \in KeysOf(5) : d[k] # UndefV

\* The earliest of the families 1 to 5 whose test succeeds, 6 when none does.
Earliest(d) ==
    IF \E f \in 1..5 : Matches(f, d)
    THEN CHOOSE f \in 1..5 : Matches(f, d) /\ \A g \in 1..(f - 1) : ~Matches(g, d)
    ELSE 6

\* The numbers of a result.
NumbersOf(t) == {x \in {t.board1, t.board2, t.board3, t.chip} : x.type = "number"}

\* The values of the fields of family f, every temp-named field for family 6.
ValuesOf(f, d) ==
    {d[k] : k \in IF f = 6 THEN {j \in Keys : IncludesTemp(j)} ELSE KeysOf(f)}

ChipSpecific(d) ==
    \E k \in {"temp_chip_1", "temp_chip_2", "temp_chip_3", "ChipTemp", "temp",
              "Temperature"} : d[k] # UndefV

\* The highest of a non-empty set of numbers.
Highest(S) == CHOOSE x \in S : \A y \in S : y.v <= x.v

\* C25: when the answer holds no reading of the chip and the result has a
\* board temperature, the chip is the highest board temperature; the chip is
\* not null while a board temperature is a number.
C25_ChipIsHighestBoard ==
    ret.fn = "extractTemperatures" =>
        LET t == ret.temps
            boards == {b \in {t.board1, t.board2, t.board3} : b.type = "number"}
        IN  /\ (~ChipSpecific(args.combinedData) /\ boards # {}) =>
                  t.chip = Highest(boards)
            /\ t.chip.type = "null" => boards = {}

\* The speeds of a result.
SpeedsOf(fans) == {fans.speed1, fans.speed2, fans.speed3, fans.speed4}

\* C26: the value of a field that no name pattern matches and that only lies
\* in the plausible range is no value of the result, for temperatures and for
\* fans; the fan candidates are logged when no first fan was found.
C26_ValueRangeIsNotCommitted ==
    /\ (ret.fn = "extractTemperatures" /\ args.combinedData["pcb_a"] # UndefV) =>
          \A x \in NumbersOf(ret.temps) :
              x = args.combinedData["pcb_a"] =>
                  \E k \in Keys \ {"pcb_a"} : args.combinedData[k] = x
    /\ ret.fn = "extractFanSpeeds" =>
          /\ OtherRpm \notin SpeedsOf(ret.fans)
          /\ \A k \in RangeOnlyKeys :
                (args.combinedData[k] = OtherRpm /\ ret.fans.speed1 = NullV) =>
                    k \in ret.potential

\* An answer whose only numbers are a pump's rpm and an unrelated speed:
\* both are logged and no fan speed is returned.
C26_Witness ==
    /\ ret.fn = "extractFanSpeeds"
    /\ \A k \in FanKeys : args.combinedData[k] # UndefV <=> k \in RangeOnlyKeys
    /\ ret.potential = RangeOnlyKeys
    /\ ret.fans = NoFans.fans

-----------------------------------------------------------------------------
(* Claims about the power draw of the snapshot, checked under SpecEval.     *)

\* The power fields of an answer, in the order the code reads them.
PowerFields(a) == <<a.statsPower, a.statspower, a.power_limit, a.summaryPower>>

-----------------------------------------------------------------------------
(* Claims about the breakeven price, checked under SpecEval.                *)

-----------------------------------------------------------------------------
(* Claims about the stored history, checked under SpecHistory.              *)

\* C29: the stored history holds at most maxEntries entries, they are the
\* entries appended last, in the order they were appended, and no call of
\* saveHistoryEntry throws.
C29_HistoryKeepsMostRecent ==
    /\ Len(historyFile) <= maxEntries
    /\ historyFile = SliceLast(appended, maxEntries)
    /\ \A c \in Saves : savePc[c] # "threw"

-----------------------------------------------------------------------------
(* Claims about the service worker, checked under SpecSw.                   *)

\* C30: networkFirstWithCache never throws, and answers with the network
\* response when fetch resolved, else with the stored copy marked
\* X-From-Cache when there is one, else with the 503 'Offline' response;
\* the API cache holds only ok responses of the cacheable endpoints.
C30_NetworkFirstAlwaysResponds ==
    /\ swPc # "threw"
    /\ swPc = "responded" =>
          IF swFetched.from = "network" THEN swResponse = swFetched
          ELSE IF apiCache[swRequest] # NoneStored
          THEN swResponse = [apiCache[swRequest] EXCEPT !.from = "cache",
                                                        !.fromCache = TRUE]
          ELSE swResponse.status = 503 /\ swResponse.body = "Offline"
    /\ \A u \in ApiPaths :
          apiCache[u] # NoneStored => (isCacheableApi(u) /\ Ok(apiCache[u]))

-----------------------------------------------------------------------------
(* Claims about the polls of one connection, checked under SpecWs.          *)

\* C31: the snapshots of a connection are sent in the order their polls were
\* started: no snapshot of an earlier poll follows one of a later poll.
C31_SnapshotsInPollOrder ==
    \A i, j \in DOMAIN sent :
        (i < j /\ sent[i].kind = "stats" /\ sent[j].kind = "stats") =>
            sent[i].poll < sent[j].poll

\* C32 as claimed: once the client has disconnected no getMinerStats is
\* started for the connection, and from some moment on a closed connection
\* has no timer set.
C32_NoPollAfterDisconnect ==
    /\ [][readyState = "CLOSED" =>
            \A p \in Polls : poll'[p] = "getMinerStats" => poll[p] = "getMinerStats"]_vars
    /\ <>[](readyState = "CLOSED" => interval # "set")

\* C32, amended: once the client has disconnected no sendStats is started
\* for the connection, and from some moment on a closed connection has no
\* timer set; a sendStats that was started before the disconnect goes on and
\* may still call getMinerStats.
C32_NoSendStatsAfterDisconnect ==
    /\ [][readyState = "CLOSED" =>
            \A p \in Polls : poll[p] = "unstarted" => poll'[p] = "unstarted"]_vars
    /\ <>[](readyState = "CLOSED" => interval # "set")

\* The client went away while the first sendStats was awaited: the timer was
\* set afterwards and its first callback cleared it without starting a poll.
C32_Witness ==
    /\ readyState = "CLOSED"
    /\ interval = "cleared"
    /\ poll[2] = "unstarted"
    /\ now > HistoryInterval + 1

\* C33: at most one history entry is appended per history interval: when a
\* sendStats has its entry saved, the entry saved before it is older than
\* the interval.
C33_OneEntryPerInterval ==
    [][\A p \in Polls :
          (poll[p] = "saveHistoryEntry" /\ poll'[p] # "saveHistoryEntry") =>
              now - lastHistorySave > HistoryInterval]_vars

-----------------------------------------------------------------------------
(* A claim about the price of the snapshot, checked under SpecEval.        *)

\* C37: with a cached current price and a configured grid fee, whatever
\* their values, 0 included, the effective price of the snapshot is the
\* cached price plus the configured fee under norgespris and the cached
\* price under every other mode.
C37_UsesCachedPriceAndConfiguredFee ==
    (/\ ret.fn = "effectivePrice"
     /\ args.currentPrice.type = "number"
     /\ args.config.gridFeePerKwh.type = "number") =>
        ret.electricity.effectivePrice
            = IF args.config.priceMode = "norgespris"
              THEN args.currentPrice.v + args.config.gridFeePerKwh.v
              ELSE args.currentPrice.v

-----------------------------------------------------------------------------
(* Claims about the stored configuration and the price cache, checked      *)
(* under SpecConfig, SpecConfigFetched and SpecConfigFair.                 *)

IsSettings(c) == request[c].route = "POST /api/config"

IsPower(c) == request[c].route = "POST /api/miner/power"

Answered(c, code) == routePc[c] = "responded" /\ routeStatus[c] = code

\* C34: when a POST /api/config and a POST /api/miner/power, the only two
\* requests, have both been answered with success, the stored configuration
\* holds the settings of the one and the profile of the other.
C34_BothUpdatesStored ==
    \A c, d \in Calls :
        (/\ IsSettings(c) /\ Answered(c, 200)
         /\ IsPower(d) /\ Answered(d, 200)
         /\ \A e \in Calls \ {c, d} : routePc[e] = "idle") =>
            /\ configFile.currentProfile = request[d].body.profile
            /\ request[c].body.gridFeePerKwh # Undef =>
                  configFile.gridFeePerKwh = request[c].body.gridFeePerKwh
            /\ request[c].body.electricityZone # Undef =>
                  configFile.electricityZone = request[c].body.electricityZone

\* C35: with every price request answered and no power request received,
\* once a POST /api/config has been answered and none is in progress, the
\* price cache is of the stored zone.
C35_CacheStaysOnConfiguredZone ==
    (/\ \E c \in Calls : IsSettings(c) /\ Answered(c, 200)
     /\ \A c \in Calls : IsSettings(c) => Answered(c, 200)
     /\ \A c \in Calls : ~IsPower(c)) =>
        electricityPriceCache.zone = configFile.electricityZone

\* C36: whenever the price cache is of another zone than the stored one,
\* it is eventually of the stored zone.
C36_RefreshReachesConfiguredZone ==
    (electricityPriceCache.zone # configFile.electricityZone)
        ~> (electricityPriceCache.zone = configFile.electricityZone)

ValidProfiles == {"low", "medium", "high"}

Watts(profile) ==
    IF profile = "low" THEN 2000 ELSE IF profile = "medium" THEN 3250 ELSE 3500

\* C38: a step that sends a command is the step of a POST /api/miner/power
\* whose profile is low, medium or high, and the command sets that
\* profile's watts; a POST /api/miner/power with another profile or without
\* a miner address is answered without a command sent and without the
\* stored configuration changed.
C38_CommandOnlyForKnownProfile ==
    [][/\ commands' # commands =>
            \E c \in Calls :
                /\ IsPower(c)
                /\ routePc[c] = "loadConfig" /\ routePc'[c] = "setPowerProfile"
                /\ request[c].body.profile \in ValidProfiles
                /\ Len(commands') = Len(commands) + 1
                /\ commands'[Len(commands')].command = "ascset"
                /\ commands'[Len(commands')].option = "power"
                /\ commands'[Len(commands')].value = Watts(request[c].body.profile)
       /\ \A c \in Calls :
            (/\ IsPower(c)
             /\ routePc'[c] # routePc[c]
             /\ \/ request[c].body.profile \notin ValidProfiles
                \/ /\ request[c].body.ip = Undef
                   /\ configFile.minerIP = Null) =>
                /\ commands' = commands
                /\ configFile' = configFile
                /\ Answered(c, 400)']_vars

\* A request with an unknown profile has been answered 400; another, with
\* the profile high, has had its command sent and its profile stored.
C38_Witness ==
    \E c, d \in Calls :
        /\ IsPower(c) /\ request[c].body.profile = "turbo" /\ Answered(c, 400)
        /\ IsPower(d) /\ request[d].body.profile = "high" /\ Answered(d, 200)
        /\ Len(commands) = 1
        /\ commands[1].value = 3500
        /\ configFile.currentProfile = "high"

====
